---- MODULE Spec2Model ----
(***************************************************************************)
(* Retrieval core of src/streamlit_app.py: dividir_em_chunks,              *)
(* criar_indice_similaridade and buscar_informacoes_relevantes, driven by  *)
(* a caller that chunks a corpus, indexes the chunks and queries the       *)
(* resulting record.                                                       *)
(*                                                                         *)
(* Representation of Python values                                         *)
(*   str    a sequence of items; an item is a non-empty sequence of        *)
(*          one-character strings and is either a run of whitespace or a   *)
(*          run of non-whitespace characters (a word).  Two words are      *)
(*          never adjacent.                                                *)
(*   None   a record whose field nulo is TRUE.                             *)
(*   float  a similarity s >= 0 is kept as the exact fraction s*s = n/d,   *)
(*          a record [n, d] with d > 0; 0.05, 0.3 and 0.4 are 1/400,       *)
(*          9/100 and 4/25.  Order on s is order on s*s.                   *)
(*   call   [raised, valor]: raised is TRUE when the call ends by an       *)
(*          exception that reaches its caller.                             *)
(***************************************************************************)
EXTENDS Integers, Sequences, FiniteSets, TLC

\* ---------------------------------------------------------------- bounds
MaxPalavras == 3
MaxTamanho == 3
MaxSobreposicao == 3
MaxTopK == 2
MaxDepois == 2

\* ------------------------------------------------------- program constants
\* dividir_em_chunks(texto, tamanho_chunk=1000, sobreposicao=200)
TamanhoChunkPadrao == 1000
SobreposicaoPadrao == 200
\* TfidfVectorizer(max_features=1000, ...)
max_features == 1000

\* ---------------------------------------------------------------- strings
ESPACO == <<" ">>

Brancos == {" ", "\n", "\t"}

EhBranco(item) == \A i \in 1..Len(item) : item[i] \in Brancos

Maiusculas ==
  <<"A","B","C","D","E","F","G","H","I","J","K","L","M","N","O","P","Q","R",
    "S","T","U","V","W","X","Y","Z","Á","Â","Ã","À","É","Ê","Í","Ó","Ô","Õ",
    "Ú","Ç">>

Minusculas ==
  <<"a","b","c","d","e","f","g","h","i","j","k","l","m","n","o","p","q","r",
    "s","t","u","v","w","x","y","z","á","â","ã","à","é","ê","í","ó","ô","õ",
    "ú","ç">>

Digitos == {"0","1","2","3","4","5","6","7","8","9"}

\* the lowercase of each uppercase letter
MinusculaDe ==
  [c \in {Maiusculas[i] : i \in 1..Len(Maiusculas)} |->
     Minusculas[CHOOSE i \in 1..Len(Maiusculas) : Maiusculas[i] = c]]

\* str.lower() on one character
LowerChar(c) == IF c \in DOMAIN MinusculaDe THEN MinusculaDe[c] ELSE c

LowerItem(item) == [i \in 1..Len(item) |-> LowerChar(item[i])]

\* str.lower()
Lower(s) == [i \in 1..Len(s) |-> LowerItem(s[i])]

\* str.split(): the words, whitespace runs dropped
Split(s) == SelectSeq(s, LAMBDA item : ~EhBranco(item))

\* ' '.join(palavras)
Join(palavras) ==
  IF Len(palavras) = 0 THEN <<>>
  ELSE [i \in 1..(2 * Len(palavras) - 1) |->
          IF i % 2 = 1 THEN palavras[(i + 1) \div 2] ELSE ESPACO]

\* str.strip(): leading and trailing whitespace removed
Strip(s) ==
  IF \A i \in 1..Len(s) : EhBranco(s[i]) THEN <<>>
  ELSE LET a == CHOOSE i \in 1..Len(s) :
                  ~EhBranco(s[i]) /\ \A j \in 1..(i - 1) : EhBranco(s[j])
           b == CHOOSE i \in 1..Len(s) :
                  ~EhBranco(s[i]) /\ \A j \in (i + 1)..Len(s) : EhBranco(s[j])
       IN SubSeq(s, a, b)

Min(a, b) == IF a < b THEN a ELSE b

\* seq[i:j] for 0 <= i <= j
Fatia(seq, i, j) == SubSeq(seq, i + 1, Min(j, Len(seq)))

\* k in item, both runs of characters
Contem(item, k) ==
  \E i \in 1..(Len(item) - Len(k) + 1) : SubSeq(item, i, i + Len(k) - 1) = k

ComecaCom(item, k) == Len(k) <= Len(item) /\ SubSeq(item, 1, Len(k)) = k

TerminaCom(item, k) ==
  Len(k) <= Len(item) /\ SubSeq(item, Len(item) - Len(k) + 1, Len(item)) = k

\* k in s for strings: k is a word, or words joined by single spaces
Em(k, s) ==
  IF Len(k) = 0 THEN TRUE
  ELSE IF Len(k) = 1 THEN \E p \in 1..Len(s) : Contem(s[p], k[1])
  ELSE \E p \in 1..(Len(s) - Len(k) + 1) :
         /\ TerminaCom(s[p], k[1])
         /\ \A j \in 2..(Len(k) - 1) : s[p + j - 1] = k[j]
         /\ ComecaCom(s[p + Len(k) - 1], k[Len(k)])

\* ------------------------------------------------------ dividir_em_chunks
\* range(0, fim, passo): ValueError when passo is 0
RangeLevanta(passo) == passo = 0

\* the values of range(0, fim, passo), in order
Range(fim, passo) ==
  IF passo > 0
  THEN [k \in 1..((fim + passo - 1) \div passo) |-> (k - 1) * passo]
  ELSE <<>>

RECURSIVE DividirLaco(_, _, _, _, _)
\* the for loop: posicoes[k..] remain, chunks built so far
DividirLaco(palavras, tamanho, posicoes, k, feitos) ==
  IF k > Len(posicoes) THEN feitos
  ELSE LET i == posicoes[k]
           chunk == Join(Fatia(palavras, i, i + tamanho))
           novos == IF Strip(chunk) # <<>>
                    THEN Append(feitos, [texto |-> chunk,
                                         indice |-> Len(feitos),
                                         posicao_inicial |-> i])
                    ELSE feitos
       IN DividirLaco(palavras, tamanho, posicoes, k + 1, novos)

\* the function with 'indice': i (the word position) for len(chunks)
DividirComIndicePosicao(txt, tamanho, sobrep) ==
  LET palavras == Split(txt)
      passo == tamanho - sobrep
      feitos == DividirLaco(palavras, tamanho,
                            Range(Len(palavras), passo), 1, <<>>)
  IN IF RangeLevanta(passo)
     THEN [raised |-> TRUE, valor |-> <<>>]
     ELSE [raised |-> FALSE,
           valor |-> [k \in 1..Len(feitos) |->
                        [feitos[k] EXCEPT !.indice = feitos[k].posicao_inicial]]]

\* the function with range(0, len(palavras), tamanho_chunk)
DividirSemSobreposicao(txt, tamanho, sobrep) ==
  LET palavras == Split(txt)
  IN IF RangeLevanta(tamanho)
     THEN [raised |-> TRUE, valor |-> <<>>]
     ELSE [raised |-> FALSE,
           valor |-> DividirLaco(palavras, tamanho,
                                 Range(Len(palavras), tamanho), 1, <<>>)]

dividir_em_chunks(txt, tamanho, sobrep) ==
  LET palavras == Split(txt)
      passo == tamanho - sobrep
  IN IF RangeLevanta(passo)
     THEN [raised |-> TRUE, valor |-> <<>>]
     ELSE [raised |-> FALSE,
           valor |-> DividirLaco(palavras, tamanho,
                                 Range(Len(palavras), passo), 1, <<>>)]

\* ---------------------------------------------------------------- floats
RECURSIVE MDC(_, _)
MDC(a, b) == IF b = 0 THEN a ELSE MDC(b, a % b)

\* the fraction n/d in lowest terms (n >= 0, d > 0)
Fracao(n, d) == LET g == MDC(n, d) IN [n |-> n \div g, d |-> d \div g]

RECURSIVE FracMenor(_, _, _, _)
\* n1/d1 < n2/d2, by continued fractions: no product is formed
FracMenor(n1, d1, n2, d2) ==
  LET q1 == n1 \div d1
      q2 == n2 \div d2
      r1 == n1 % d1
      r2 == n2 % d2
  IN IF q1 # q2 THEN q1 < q2
     ELSE IF r2 = 0 THEN FALSE
     ELSE IF r1 = 0 THEN TRUE
     ELSE FracMenor(d2, r2, d1, r1)

\* a < b and a > b on similarities
Menor(a, b) == FracMenor(a.n, a.d, b.n, b.d)

Maior(a, b) == Menor(b, a)

\* the literals 0.05, 0.4 and 0.3 of buscar_informacoes_relevantes
Limiar == [n |-> 1, d |-> 400]

SimilaridadeHabilidade == [n |-> 4, d |-> 25]

SimilaridadePalavraChave == [n |-> 9, d |-> 100]

\* ----------------------------------------- TfidfVectorizer (scikit-learn)
\* \w of the default token_pattern r"(?u)\b\w\w+\b"
CaracteresDePalavra ==
  Digitos \cup {"_"} \cup {Maiusculas[i] : i \in 1..Len(Maiusculas)}
    \cup {Minusculas[i] : i \in 1..Len(Minusculas)}

EhCaractereDePalavra(c) == c \in CaracteresDePalavra

RECURSIVE Corridas(_, _, _, _)
\* the runs of two or more word characters of item[i..], in order, after
\* the run atual that ends at i - 1 and the runs feitos before it
Corridas(item, i, atual, feitos) ==
  LET fechado == IF Len(atual) >= 2 THEN Append(feitos, atual) ELSE feitos
  IN IF i > Len(item) THEN fechado
     ELSE IF EhCaractereDePalavra(item[i])
     THEN Corridas(item, i + 1, Append(atual, item[i]), feitos)
     ELSE Corridas(item, i + 1, <<>>, fechado)

\* the matches of the token pattern in one item; an item of word
\* characters only is a single run
TokensDoItem(item) ==
  IF \A i \in 1..Len(item) : EhCaractereDePalavra(item[i])
  THEN IF Len(item) >= 2 THEN <<item>> ELSE <<>>
  ELSE Corridas(item, 1, <<>>, <<>>)

RECURSIVE Achatar(_, _, _)
\* listas[a] \o ... \o listas[b], halving the range
Achatar(listas, a, b) ==
  IF a > b THEN <<>>
  ELSE IF a = b THEN listas[a]
  ELSE LET m == (a + b) \div 2
       IN Achatar(listas, a, m) \o Achatar(listas, m + 1, b)

\* lowercase=True, then the token pattern
Tokens(s) ==
  LET m == Lower(s)
  IN Achatar([i \in 1..Len(m) |-> TokensDoItem(m[i])],
             1, Len(m))

\* ngram_range=(1, 2): the unigrams, then the bigrams
NGramas(t) ==
  [i \in 1..Len(t) |-> <<t[i]>>]
    \o [i \in 1..(Len(t) - 1) |-> <<t[i], t[i + 1]>>]

\* the analyzer of the vectorizer
Analisar(s) == NGramas(Tokens(s))

\* occurrences of termo in a list of terms
Contagem(termo, termos) ==
  Cardinality({i \in 1..Len(termos) : termos[i] = termo})

RECURSIVE Enumerar(_)
\* the elements of a finite set, in a fixed order
Enumerar(S) ==
  IF S = {} THEN <<>>
  ELSE LET e == CHOOSE e \in S : TRUE IN <<e>> \o Enumerar(S \ {e})

RECURSIVE Soma(_, _)
\* v[1] + ... + v[n]
Soma(v, n) == IF n = 0 THEN 0 ELSE Soma(v, n - 1) + v[n]

\* max_features: only the terms of highest total frequency are kept
LimitarFeatures(termos, analisados) ==
  LET total(t) == Soma([i \in 1..Len(analisados) |->
                          Contagem(t, analisados[i])], Len(analisados))
  IN IF Cardinality(termos) <= max_features THEN termos
     ELSE CHOOSE S \in SUBSET termos :
            /\ Cardinality(S) = max_features
            /\ \A a \in S : \A b \in termos \ S : total(a) >= total(b)

\* smooth idf, ln((1 + n) / (1 + df)) + 1, in tenths (rounded)
IdfTabela ==
  <<<<10>>,
    <<14, 10>>,
    <<17, 13, 10>>,
    <<19, 15, 12, 10>>,
    <<21, 17, 14, 12, 10>>,
    <<23, 18, 16, 13, 12, 10>>,
    <<24, 20, 17, 15, 13, 11, 10>>,
    <<25, 21, 18, 16, 14, 13, 11, 10>>>>

Idf(n, df) == IdfTabela[n][df]

\* vectorizer.transform of a document whose analysed terms are termos
Transform(vocabulario, idf, termos) ==
  [j \in 1..Len(vocabulario) |-> Contagem(vocabulario[j], termos) * idf[j]]

\* TfidfVectorizer.fit_transform(textos): ValueError on an empty vocabulary.
\* Row i holds tf * idf of textos[i] per column; the l2 normalisation of
\* the rows is left to the cosine, which divides by the norms.
FitTransform(textos) ==
  LET analisados == [i \in 1..Len(textos) |-> Analisar(textos[i])]
      todos == UNION {{analisados[i][j] : j \in 1..Len(analisados[i])} :
                        i \in 1..Len(textos)}
  IN IF todos = {}
     THEN [raised |-> TRUE, vocabulario |-> <<>>, idf |-> <<>>,
           tfidf_matrix |-> <<>>]
     ELSE LET vocabulario == Enumerar(LimitarFeatures(todos, analisados))
              df(t) == Cardinality({i \in 1..Len(textos) :
                                      Contagem(t, analisados[i]) > 0})
              idf == [j \in 1..Len(vocabulario) |->
                        Idf(Len(textos), df(vocabulario[j]))]
          IN [raised |-> FALSE,
              vocabulario |-> vocabulario,
              idf |-> idf,
              tfidf_matrix |->
                [i \in 1..Len(textos) |->
                   Transform(vocabulario, idf, analisados[i])]]

\* u . v
Produto(u, v) == Soma([j \in 1..Len(u) |-> u[j] * v[j]], Len(u))

\* one entry of cosine_similarity(u, [v]); a zero vector gives 0
Cosseno(u, v) ==
  LET uu == Produto(u, u)
      vv == Produto(v, v)
      uv == Produto(u, v)
  IN IF uu = 0 \/ vv = 0 THEN Fracao(0, 1) ELSE Fracao(uv * uv, uu * vv)

\* cosine_similarity(consulta_vector, tfidf_matrix).flatten()
cosine_similarity(u, matriz) ==
  [i \in 1..Len(matriz) |-> Cosseno(u, matriz[i])]

\* ---------------------------------------------- criar_indice_similaridade
IndiceNone ==
  [nulo |-> TRUE, vocabulario |-> <<>>, idf |-> <<>>, tfidf_matrix |-> <<>>,
   chunks |-> <<>>]

\* the try body; raised is caught by criar_indice_similaridade
\* the try body with 'chunks' stored renumbered from 1
CriarIndiceRenumerado(cs) ==
  LET textos == [i \in 1..Len(cs) |-> cs[i].texto]
      v == FitTransform(textos)
  IN IF Len(cs) = 0 THEN [raised |-> FALSE, valor |-> IndiceNone]
     ELSE IF v.raised THEN [raised |-> TRUE, valor |-> IndiceNone]
     ELSE [raised |-> FALSE,
           valor |-> [nulo |-> FALSE, vocabulario |-> v.vocabulario,
                      idf |-> v.idf, tfidf_matrix |-> v.tfidf_matrix,
                      chunks |-> [i \in 1..Len(cs) |->
                                    [cs[i] EXCEPT !.indice = @ + 1]]]]

\* the try body with "if len(chunks) < 2" for "if not chunks"
CriarIndiceMinimoDois(cs) ==
  LET textos == [i \in 1..Len(cs) |-> cs[i].texto]
      v == FitTransform(textos)
  IN IF Len(cs) < 2 THEN [raised |-> FALSE, valor |-> IndiceNone]
     ELSE IF v.raised THEN [raised |-> TRUE, valor |-> IndiceNone]
     ELSE [raised |-> FALSE,
           valor |-> [nulo |-> FALSE, vocabulario |-> v.vocabulario,
                      idf |-> v.idf, tfidf_matrix |-> v.tfidf_matrix,
                      chunks |-> cs]]

CriarIndiceCorpo(cs) ==
  IF Len(cs) = 0 THEN [raised |-> FALSE, valor |-> IndiceNone]
  ELSE LET textos == [i \in 1..Len(cs) |-> cs[i].texto]
           v == FitTransform(textos)
       IN IF v.raised THEN [raised |-> TRUE, valor |-> IndiceNone]
          ELSE [raised |-> FALSE,
                valor |-> [nulo |-> FALSE,
                           vocabulario |-> v.vocabulario,
                           idf |-> v.idf,
                           tfidf_matrix |-> v.tfidf_matrix,
                           chunks |-> cs]]

\* the function with neither the empty-list test nor the try/except
CriarIndiceSemProtecao(cs) ==
  LET textos == [i \in 1..Len(cs) |-> cs[i].texto]
      v == FitTransform(textos)
  IN [raised |-> v.raised,
      valor |-> IF v.raised THEN IndiceNone
                ELSE [nulo |-> FALSE, vocabulario |-> v.vocabulario,
                      idf |-> v.idf, tfidf_matrix |-> v.tfidf_matrix,
                      chunks |-> cs]]

criar_indice_similaridade(cs) ==
  LET r == CriarIndiceCorpo(cs)
  IN IF r.raised THEN [raised |-> FALSE, valor |-> IndiceNone] ELSE r

\* ------------------------------------------- buscar_informacoes_relevantes
\* the string literals of the function
Str_habilidade == Join(<<<<"h","a","b","i","l","i","d","a","d","e">>>>)

Str_competencia == Join(<<<<"c","o","m","p","e","t","ê","n","c","i","a">>>>)

Str_proficiencia ==
  Join(<<
    <<"p","r","o","f","i","c","i","ê","n","c","i","a">>
  >>)

Str_desempenho == Join(<<<<"d","e","s","e","m","p","e","n","h","o">>>>)

Str_participacao ==
  Join(<<
    <<"p","a","r","t","i","c","i","p","a","ç","ã","o">>
  >>)

Str_BNCC == Join(<<<<"B","N","C","C">>>>)

Str_BaseNacional ==
  Join(<<
    <<"B","a","s","e">>,
    <<"N","a","c","i","o","n","a","l">>,
    <<"C","o","m","u","m">>,
    <<"C","u","r","r","i","c","u","l","a","r">>
  >>)

Str_BNCC_site ==
  Join(<<
    <<"B","N","C","C","_","2","0","d","e","z","_","s","i","t","e">>
  >>)

Str_DCRC == Join(<<<<"D","C","R","C">>>>)

Str_DocumentoCurricular ==
  Join(<<
    <<"D","o","c","u","m","e","n","t","o">>,
    <<"C","u","r","r","i","c","u","l","a","r">>,
    <<"R","e","f","e","r","e","n","c","i","a","l">>
  >>)

Str_dcrc == Join(<<<<"d","c","r","c">>>>)

\* src/streamlit_app.py:642, the text after "{consulta} "
CaudaHabilidade ==
  Join(<<
    <<"h","a","b","i","l","i","d","a","d","e">>,
    <<"c","o","m","p","e","t","ê","n","c","i","a">>,
    <<"c","a","p","a","c","i","d","a","d","e">>,
    <<"c","o","m","p","o","n","e","n","t","e">>,
    <<"r","e","l","a","ç","ã","o">>,
    <<"e","n","t","r","e">>,
    <<"c","o","m","p","o","n","e","n","t","e","s">>,
    <<"p","r","o","x","i","m","i","d","a","d","e">>,
    <<"h","a","b","i","l","i","d","a","d","e","s">>,
    <<"S","P","A","E","C","E">>,
    <<"D","C","R","C">>,
    <<"B","N","C","C">>,
    <<"a","v","a","l","i","a","ç","ã","o">>,
    <<"p","r","o","f","i","c","i","ê","n","c","i","a">>,
    <<"c","o","m","p","e","t","ê","n","c","i","a">>,
    <<"g","e","r","a","l">>,
    <<"c","o","m","p","e","t","ê","n","c","i","a">>,
    <<"e","s","p","e","c","í","f","i","c","a">>,
    <<"h","a","b","i","l","i","d","a","d","e">>,
    <<"e","s","s","e","n","c","i","a","l">>,
    <<"d","e","s","c","r","i","ç","ã","o">>,
    <<"d","a">>,
    <<"h","a","b","i","l","i","d","a","d","e">>,
    <<"c","a","r","a","c","t","e","r","i","z","a","ç","ã","o">>,
    <<"h","a","b","i","l","i","d","a","d","e">>,
    <<"e","s","p","e","c","í","f","i","c","a">>,
    <<"v","i","n","c","u","l","a","ç","ã","o">>,
    <<"c","o","m","p","e","t","ê","n","c","i","a">>,
    <<"c","o","n","e","x","ã","o">>,
    <<"c","o","m","p","o","n","e","n","t","e">>,
    <<"r","e","l","a","ç","ã","o">>,
    <<"d","e","n","t","r","o">>,
    <<"p","r","ó","p","r","i","o">>,
    <<"c","o","m","p","o","n","e","n","t","e">>,
    <<"c","o","m","p","e","t","ê","n","c","i","a","s">>,
    <<"e","s","p","e","c","í","f","i","c","a","s">>,
    <<"d","e","s","c","r","i","ç","õ","e","s">>,
    <<"h","a","b","i","l","i","d","a","d","e","s">>,
    <<"r","e","l","a","ç","õ","e","s">>,
    <<"h","a","b","i","l","i","d","a","d","e","s">>,
    <<"o","b","j","e","t","o">>,
    <<"d","e">>,
    <<"c","o","n","h","e","c","i","m","e","n","t","o">>,
    <<"c","a","m","p","o">>,
    <<"d","e">>,
    <<"e","x","p","e","r","i","ê","n","c","i","a">>,
    <<"p","r","á","t","i","c","a">>,
    <<"d","e">>,
    <<"l","i","n","g","u","a","g","e","m">>,
    <<"p","e","r","c","u","r","s","o">>,
    <<"a","p","r","e","n","d","i","z","a","d","o">>,
    <<"p","r","o","g","r","e","s","s","ã","o">>,
    <<"s","e","q","u","ê","n","c","i","a">>,
    <<"d","e","p","e","n","d","ê","n","c","i","a">>,
    <<"p","r","é","-","r","e","q","u","i","s","i","t","o">>,
    <<"h","i","e","r","a","r","q","u","i","a">>,
    <<"m","e","t","o","d","o","l","o","g","i","a">>,
    <<"e","s","t","r","a","t","é","g","i","a">>,
    <<"e","n","s","i","n","o">>,
    <<"o","b","j","e","t","i","v","o">>,
    <<"a","p","r","e","n","d","i","z","a","g","e","m">>,
    <<"e","x","p","e","c","t","a","t","i","v","a">>,
    <<"a","p","r","e","n","d","i","z","a","g","e","m">>,
    <<"d","i","r","e","i","t","o">>,
    <<"a","p","r","e","n","d","i","z","a","g","e","m">>,
    <<"b","a","s","e">>,
    <<"n","a","c","i","o","n","a","l">>,
    <<"c","o","m","u","m">>,
    <<"c","u","r","r","i","c","u","l","a","r">>,
    <<"d","o","c","u","m","e","n","t","o">>,
    <<"c","u","r","r","i","c","u","l","a","r">>,
    <<"r","e","f","e","r","e","n","c","i","a","l">>
  >>)

\* src/streamlit_app.py:644, the text after "{consulta} "
CaudaProficiencia ==
  Join(<<
    <<"p","r","o","f","i","c","i","ê","n","c","i","a">>,
    <<"d","e","s","e","m","p","e","n","h","o">>,
    <<"r","e","n","d","i","m","e","n","t","o">>,
    <<"S","P","A","E","C","E">>,
    <<"D","C","R","C">>,
    <<"B","N","C","C">>,
    <<"a","v","a","l","i","a","ç","ã","o">>,
    <<"c","o","m","p","e","t","ê","n","c","i","a">>,
    <<"o","b","j","e","t","i","v","o">>,
    <<"d","e">>,
    <<"a","p","r","e","n","d","i","z","a","g","e","m">>,
    <<"c","o","m","p","e","t","ê","n","c","i","a">>,
    <<"e","s","p","e","c","í","f","i","c","a">>
  >>)

\* src/streamlit_app.py:646, the text after "{consulta} "
CaudaParticipacao ==
  Join(<<
    <<"p","a","r","t","i","c","i","p","a","ç","ã","o">>,
    <<"f","r","e","q","u","ê","n","c","i","a">>,
    <<"p","r","e","s","e","n","ç","a">>,
    <<"S","P","A","E","C","E">>,
    <<"D","C","R","C">>,
    <<"B","N","C","C">>,
    <<"e","d","u","c","a","ç","ã","o">>,
    <<"b","á","s","i","c","a">>
  >>)

\* src/streamlit_app.py:648, the text after "{consulta} "
CaudaGeral ==
  Join(<<
    <<"e","d","u","c","a","ç","ã","o">>,
    <<"a","v","a","l","i","a","ç","ã","o">>,
    <<"S","P","A","E","C","E">>,
    <<"D","C","R","C">>,
    <<"B","N","C","C">>,
    <<"m","e","t","o","d","o","l","o","g","i","a">>,
    <<"i","n","d","i","c","a","d","o","r","e","s">>,
    <<"c","o","m","p","e","t","ê","n","c","i","a">>,
    <<"g","e","r","a","l">>,
    <<"c","o","m","p","e","t","ê","n","c","i","a">>,
    <<"e","s","p","e","c","í","f","i","c","a">>,
    <<"h","a","b","i","l","i","d","a","d","e">>,
    <<"e","s","s","e","n","c","i","a","l">>,
    <<"d","e","s","c","r","i","ç","ã","o">>,
    <<"h","a","b","i","l","i","d","a","d","e">>
  >>)

palavras_habilidade ==
  <<
    Join(<<<<"h","a","b","i","l","i","d","a","d","e">>>>),
    Join(<<<<"c","o","m","p","e","t","ê","n","c","i","a">>>>),
    Join(<<<<"c","a","p","a","c","i","d","a","d","e">>>>),
    Join(<<<<"c","o","m","p","o","n","e","n","t","e">>>>),
    Join(<<<<"r","e","l","a","ç","ã","o">>>>),
    Join(<<<<"v","i","n","c","u","l","a","ç","ã","o">>>>),
    Join(<<<<"c","o","n","e","x","ã","o">>>>),
    Join(<<<<"d","e","s","c","r","i","ç","ã","o">>>>),
    Join(<<<<"c","a","r","a","c","t","e","r","i","z","a","ç","ã","o">>>>),
    Join(<<<<"e","s","p","e","c","í","f","i","c","a">>>>),
    Join(<<<<"g","e","r","a","l">>>>),
    Join(<<<<"e","s","s","e","n","c","i","a","l">>>>),
    Join(<<<<"d","c","r","c">>>>),
    Join(<<<<"d","o","c","u","m","e","n","t","o">>, <<"c","u","r","r","i","c","u","l","a","r">>>>),
    Join(<<<<"b","n","c","c">>>>),
    Join(<<<<"b","a","s","e">>, <<"n","a","c","i","o","n","a","l">>, <<"c","o","m","u","m">>, <<"c","u","r","r","i","c","u","l","a","r">>>>)
  >>

\* a result entry of the similarity pass and of the ability pass
Resultado(chunk, similaridade, fonte) ==
  [chunk |-> chunk, similaridade |-> similaridade, texto |-> chunk.texto,
   fonte |-> fonte]

\* a result entry of the keyword pass: the dict has no 'fonte' key
ResultadoPalavraChave(chunk) ==
  [chunk |-> chunk, similaridade |-> SimilaridadePalavraChave,
   texto |-> chunk.texto]

\* 'habilidade' in consulta.lower() or 'competência' in consulta.lower()
ConsultaDeHabilidade(s) ==
  Em(Str_habilidade, Lower(s)) \/ Em(Str_competencia, Lower(s))

\* the choice with the proficiency test made before the ability test
CategoriaProficienciaPrimeiro(s) ==
  IF Em(Str_proficiencia, Lower(s)) \/ Em(Str_desempenho, Lower(s))
  THEN "proficiencia"
  ELSE IF ConsultaDeHabilidade(s) THEN "habilidade"
  ELSE IF Em(Str_participacao, Lower(s)) THEN "participacao"
  ELSE "geral"

\* which of the four expansions the query gets
Categoria(s) ==
  IF ConsultaDeHabilidade(s) THEN "habilidade"
  ELSE IF Em(Str_proficiencia, Lower(s)) \/ Em(Str_desempenho, Lower(s))
  THEN "proficiencia"
  ELSE IF Em(Str_participacao, Lower(s)) THEN "participacao"
  ELSE "geral"

Caudas ==
  [habilidade |-> CaudaHabilidade, proficiencia |-> CaudaProficiencia,
   participacao |-> CaudaParticipacao, geral |-> CaudaGeral]

\* consulta_expandida = f"{consulta} {tail}"
ExpandirConsulta(s) == s \o <<ESPACO>> \o Caudas[Categoria(s)]

\* the tokens of each tail
TokensDasCaudas == [c \in DOMAIN Caudas |-> Tokens(Caudas[c])]

\* the analysed terms of consulta_expandida.  A token never spans the
\* space between consulta and the tail, so Tokens(ExpandirConsulta(s)) is
\* Tokens(s) followed by the tokens of the tail.
TermosDaConsulta(s) == NGramas(Tokens(s) \o TokensDasCaudas[Categoria(s)])

\* np.argsort(v): 0-based positions by ascending value, equal values in
\* ascending position
ArgSort(v) ==
  LET antes(j, i) == Menor(v[j], v[i]) \/ (v[j] = v[i] /\ j < i)
      lugar(i) == Cardinality({j \in 1..Len(v) : antes(j, i)}) + 1
  IN [p \in 1..Len(v) |-> (CHOOSE i \in 1..Len(v) : lugar(i) = p) - 1]

\* argsort without the [::-1]
NaoInverter(seq) == seq

\* seq[::-1]
Inverter(seq) == [p \in 1..Len(seq) |-> seq[Len(seq) + 1 - p]]

\* fonte_documento with the parity rule the other way round
FonteDocumentoImparBNCC(chunk_texto, idx) ==
  IF \/ Em(Str_BNCC, chunk_texto)
     \/ Em(Str_BaseNacional, chunk_texto)
     \/ Em(Str_BNCC_site, chunk_texto)
  THEN "BNCC"
  ELSE IF \/ Em(Str_DCRC, chunk_texto)
          \/ Em(Str_DocumentoCurricular, chunk_texto)
          \/ Em(Str_dcrc, Lower(chunk_texto))
  THEN "DCRC"
  ELSE IF idx % 2 = 1 THEN "BNCC" ELSE "DCRC"

\* fonte_documento of the similarity pass
FonteDocumento(chunk_texto, idx) ==
  IF \/ Em(Str_BNCC, chunk_texto)
     \/ Em(Str_BaseNacional, chunk_texto)
     \/ Em(Str_BNCC_site, chunk_texto)
  THEN "BNCC"
  ELSE IF \/ Em(Str_DCRC, chunk_texto)
          \/ Em(Str_DocumentoCurricular, chunk_texto)
          \/ Em(Str_dcrc, Lower(chunk_texto))
  THEN "DCRC"
  ELSE IF idx % 2 = 0 THEN "BNCC" ELSE "DCRC"

\* fonte_habilidade of the ability pass
FonteHabilidade(chunk_texto, i) ==
  IF Em(Str_BNCC, chunk_texto) \/ Em(Str_BaseNacional, chunk_texto)
  THEN "BNCC"
  ELSE IF Em(Str_DCRC, chunk_texto) \/ Em(Str_DocumentoCurricular, chunk_texto)
  THEN "DCRC"
  ELSE IF i % 2 = 0 THEN "BNCC" ELSE "DCRC"

\* similaridades[idx] >= 0.05
NoLimiarOuAcima(similaridade) == ~Menor(similaridade, Limiar)

\* similaridades[idx] > 0.05
AcimaDoLimiar(similaridade) == Maior(similaridade, Limiar)

\* the similarity pass: the loop over top_indices
PassoSimilaridade(cs, similaridades, top_indices) ==
  LET mantidos == SelectSeq(top_indices,
                    LAMBDA idx : AcimaDoLimiar(similaridades[idx + 1]))
  IN [p \in 1..Len(mantidos) |->
        LET idx == mantidos[p]
        IN Resultado(cs[idx + 1], similaridades[idx + 1],
                     FonteDocumento(cs[idx + 1].texto, idx))]

\* len(resultados) >= top_k * 2, the break of the ability pass
ParadaHabilidade(resultados, k) == Len(resultados) >= k * 2

RECURSIVE PassoHabilidadeSemVerificar(_, _, _, _)
\* the ability pass without the test for chunks already in resultados
PassoHabilidadeSemVerificar(cs, i, k, resultados) ==
  IF i >= Len(cs) THEN resultados
  ELSE LET chunk == cs[i + 1]
           texto_chunk == Lower(chunk.texto)
       IN IF \E p \in 1..Len(palavras_habilidade) :
               Em(palavras_habilidade[p], texto_chunk)
          THEN LET novos == Append(resultados,
                              Resultado(chunk, SimilaridadeHabilidade,
                                        FonteHabilidade(chunk.texto, i)))
               IN IF ParadaHabilidade(novos, k) THEN novos
                  ELSE PassoHabilidadeSemVerificar(cs, i + 1, k, novos)
          ELSE PassoHabilidadeSemVerificar(cs, i + 1, k, resultados)

RECURSIVE PassoHabilidade(_, _, _, _)
\* the ability pass: enumerate(chunks) from position i on
PassoHabilidade(cs, i, k, resultados) ==
  IF i >= Len(cs) THEN resultados
  ELSE LET chunk == cs[i + 1]
           texto_chunk == Lower(chunk.texto)
       IN IF /\ \E p \in 1..Len(palavras_habilidade) :
                  Em(palavras_habilidade[p], texto_chunk)
             /\ ~\E r \in 1..Len(resultados) :
                  resultados[r].chunk.indice = chunk.indice
          THEN LET novos == Append(resultados,
                              Resultado(chunk, SimilaridadeHabilidade,
                                        FonteHabilidade(chunk.texto, i)))
               IN IF ParadaHabilidade(novos, k) THEN novos
                  ELSE PassoHabilidade(cs, i + 1, k, novos)
          ELSE PassoHabilidade(cs, i + 1, k, resultados)

\* len(resultados) >= top_k, the break of the keyword pass
ParadaPalavraChave(resultados, k) == Len(resultados) >= k

RECURSIVE PassoPalavraChave(_, _, _, _, _)
\* the keyword pass: enumerate(chunks) from position i on
PassoPalavraChave(cs, palavras_chave, i, k, resultados) ==
  IF i >= Len(cs) THEN resultados
  ELSE LET chunk == cs[i + 1]
           texto_chunk == Lower(chunk.texto)
       IN IF \E p \in 1..Len(palavras_chave) :
               Em(<<palavras_chave[p]>>, texto_chunk)
          THEN LET novos == Append(resultados, ResultadoPalavraChave(chunk))
               IN IF ParadaPalavraChave(novos, k) THEN novos
                  ELSE PassoPalavraChave(cs, palavras_chave, i + 1, k, novos)
          ELSE PassoPalavraChave(cs, palavras_chave, i + 1, k, resultados)

\* similaridades: the cosine of the expanded query to every chunk
Similaridades(s, indice) ==
  cosine_similarity(Transform(indice.vocabulario, indice.idf,
                              TermosDaConsulta(s)),
                    indice.tfidf_matrix)

\* the three passes with the keyword pass run whenever the similarity pass
\* kept nothing, after whatever the ability pass added
PassosComPalavraChaveSobreReforco(s, cs, escores, k) ==
  LET top_indices == Fatia(Inverter(ArgSort(escores)), 0, k)
      primeiros == PassoSimilaridade(cs, escores, top_indices)
      com_habilidade ==
        IF ConsultaDeHabilidade(s)
        THEN PassoHabilidade(cs, 0, k, primeiros)
        ELSE primeiros
  IN IF Len(primeiros) = 0
     THEN PassoPalavraChave(cs, Split(Lower(s)), 0, k, com_habilidade)
     ELSE com_habilidade

\* from the similarity vector to the returned list: the three passes
Passos(s, cs, escores, k) ==
  LET top_indices == Fatia(Inverter(ArgSort(escores)), 0, k)
      primeiros == PassoSimilaridade(cs, escores, top_indices)
      com_habilidade ==
        IF ConsultaDeHabilidade(s)
        THEN PassoHabilidade(cs, 0, k, primeiros)
        ELSE primeiros
  IN IF Len(com_habilidade) = 0
     THEN PassoPalavraChave(cs, Split(Lower(s)), 0, k, <<>>)
     ELSE com_habilidade

\* the try body.  consulta is [nulo, valor]; consulta.lower() raises
\* AttributeError on None.
BuscarCorpo(consulta, dados, k) ==
  IF dados.nulo \/ dados.indice_similaridade.nulo
  THEN [raised |-> FALSE, valor |-> <<>>, escores |-> <<>>]
  ELSE IF consulta.nulo
  THEN [raised |-> TRUE, valor |-> <<>>, escores |-> <<>>]
  ELSE
    LET indice == dados.indice_similaridade
        escores == Similaridades(consulta.valor, indice)
    IN [raised |-> FALSE,
        valor |-> Passos(consulta.valor, indice.chunks, escores, k),
        escores |-> escores]

\* the function with the chunk list of the index reversed in place
ChunksInvertidosDepois(dados) ==
  IF dados.nulo \/ dados.indice_similaridade.nulo THEN dados
  ELSE [dados EXCEPT !.indice_similaridade.chunks =
          [p \in 1..Len(@) |-> @[Len(@) + 1 - p]]]

\* the function with chunk['texto'] lowercased in place for the scans
DadosComTextoMinusculo(dados) ==
  IF dados.nulo \/ dados.indice_similaridade.nulo THEN dados
  ELSE [dados EXCEPT !.indice_similaridade.chunks =
          [p \in 1..Len(@) |-> [@[p] EXCEPT !.texto = Lower(@)]]]

\* dados_rag after a call: the function reads indice['vectorizer'],
\* indice['tfidf_matrix'] and indice['chunks'] and writes to none of them
DadosDepoisDaBusca(dados) == dados

\* the function without its try/except
BuscarSemTry(consulta, dados, k) == BuscarCorpo(consulta, dados, k)

\* try: ... except Exception: return [].  escores is the vector of line
\* 654 when the call got that far, kept for the caller's record.
buscar_informacoes_relevantes(consulta, dados, k) ==
  LET r == BuscarCorpo(consulta, dados, k)
  IN IF r.raised
     THEN [raised |-> FALSE, valor |-> <<>>, escores |-> <<>>]
     ELSE r

\* ------------------------------------------------ the extractors
\* Here texto_md is the sequence of its characters and offsets count from 0,
\* as match.start() and the slices of the source do.

\* 200 of secao[:200]
LimiteDoTrecho == 200

\* 10 of matches[:10]
LimiteDeDados == 10

\* 5 of secoes[-5:]
UltimasSecoes == 5

\* 500 of match.start() - 500 and match.end() + 500
Contexto == 500

Max(a, b) == IF a > b THEN a ELSE b

\* the least and the greatest element of a non-empty set of integers
Menor_de(S) == CHOOSE x \in S : \A y \in S : x <= y

Maior_de(S) == CHOOSE x \in S : \A y \in S : y <= x

\* t[a:b] for 0 <= a
Trecho(t, a, b) == SubSeq(t, a + 1, Min(b, Len(t)))

\* t has the characters of lit at offset p
OcorreEm(t, p, lit) ==
  /\ p + Len(lit) <= Len(t)
  /\ \A i \in 1..Len(lit) : t[p + i] = lit[i]

\* the same under re.IGNORECASE
OcorreSemCaixa(t, p, lit) ==
  /\ p + Len(lit) <= Len(t)
  /\ \A i \in 1..Len(lit) : LowerChar(t[p + i]) = LowerChar(lit[i])

\* where a match of one alternative of a pattern, tried at offset p, ends,
\* or -1: the alternative is a literal, or two literals around ".*", which
\* takes the longest run without a newline that the second literal follows
FimDaAlternativa(t, p, alt) ==
  IF ~OcorreSemCaixa(t, p, alt[1]) THEN -1
  ELSE IF Len(alt) = 1 THEN p + Len(alt[1])
  ELSE LET a == p + Len(alt[1])
           Q == {q \in a..Len(t) :
                   /\ OcorreSemCaixa(t, q, alt[2])
                   /\ \A i \in (a + 1)..q : t[i] # "\n"}
       IN IF Q = {} THEN -1 ELSE Maior_de(Q) + Len(alt[2])

\* where a match of the pattern at offset p ends, or -1: the first
\* alternative that matches there
FimDoPadrao(t, p, padrao) ==
  LET A == {k \in 1..Len(padrao) : FimDaAlternativa(t, p, padrao[k]) # -1}
  IN IF A = {} THEN -1 ELSE FimDaAlternativa(t, p, padrao[Menor_de(A)])

\* re.finditer(padrao, t, re.IGNORECASE) from offset pos on: the matches,
\* leftmost first, none overlapping
RECURSIVE Finditer(_, _, _)
Finditer(padrao, t, pos) ==
  LET P == {p \in pos..(Len(t) - 1) : FimDoPadrao(t, p, padrao) # -1}
  IN IF P = {} THEN <<>>
     ELSE LET p == Menor_de(P)
              f == FimDoPadrao(t, p, padrao)
          IN <<[start |-> p, end |-> f]>> \o Finditer(padrao, t, f)

\* padroes_secoes: each name with the alternatives of its pattern
padroes_secoes ==
  <<
    [nome |-> "metodologia",
     padrao |->
       <<<<<<"m","e","t","o","d","o","l","o","g","i","a">>>>,
          <<<<"m","é","t","o","d","o">>>>,
          <<<<"p","r","o","c","e","d","i","m","e","n","t","o">>>>>>],
    [nome |-> "indicadores",
     padrao |->
       <<<<<<"i","n","d","i","c","a","d","o","r">>>>,
          <<<<"m","é","t","r","i","c","a">>>>,
          <<<<"m","e","d","i","d","a">>>>>>],
    [nome |-> "resultados",
     padrao |->
       <<<<<<"r","e","s","u","l","t","a","d","o">>>>,
          <<<<"c","o","n","c","l","u","s","ã","o">>>>,
          <<<<"a","c","h","a","d","o">>>>>>],
    [nome |-> "recomendacoes",
     padrao |->
       <<<<<<"r","e","c","o","m","e","n","d","a">>>>,
          <<<<"s","u","g","e","s","t","ã","o">>>>,
          <<<<"o","r","i","e","n","t","a","ç","ã","o">>>>>>],
    [nome |-> "tabelas",
     padrao |->
       <<<<<<"t","a","b","e","l","a">>>>,
          <<<<"q","u","a","d","r","o">>>>,
          <<<<"d","a","d","o","s">>>>>>],
    [nome |-> "graficos",
     padrao |->
       <<<<<<"g","r","á","f","i","c","o">>>>,
          <<<<"f","i","g","u","r","a">>>>,
          <<<<"c","h","a","r","t">>>>>>],
    [nome |-> "habilidades",
     padrao |->
       <<<<<<"h","a","b","i","l","i","d","a","d","e">>>>,
          <<<<"c","o","m","p","e","t","ê","n","c","i","a">>>>,
          <<<<"c","a","p","a","c","i","d","a","d","e">>>>>>],
    [nome |-> "componentes",
     padrao |->
       <<<<<<"c","o","m","p","o","n","e","n","t","e">>>>,
          <<<<"d","i","s","c","i","p","l","i","n","a">>>>,
          <<<<"á","r","e","a">>>>>>],
    [nome |-> "relacoes",
     padrao |->
       <<<<<<"r","e","l","a","ç","ã","o">>>>,
          <<<<"r","e","l","a","c","i","o","n","a","m","e","n","t","o">>>>,
          <<<<"c","o","n","e","x","ã","o">>>>,
          <<<<"v","i","n","c","u","l","a","ç","ã","o">>>>>>],
    [nome |-> "proficiencia",
     padrao |->
       <<<<<<"p","r","o","f","i","c","i","ê","n","c","i","a">>>>,
          <<<<"d","e","s","e","m","p","e","n","h","o">>>>,
          <<<<"r","e","n","d","i","m","e","n","t","o">>>>>>],
    [nome |-> "avaliacao",
     padrao |->
       <<<<<<"a","v","a","l","i","a","ç","ã","o">>>>,
          <<<<"t","e","s","t","e">>>>,
          <<<<"e","x","a","m","e">>>>>>],
    [nome |-> "curriculo",
     padrao |->
       <<<<<<"c","u","r","r","í","c","u","l","o">>>>,
          <<<<"c","o","n","t","e","ú","d","o">>>>,
          <<<<"p","r","o","g","r","a","m","a">>>>>>],
    [nome |-> "bncc_competencias",
     padrao |->
       <<<<<<"c","o","m","p","e","t","ê","n","c","i","a"," ","g","e","r","a","l">>>>,
          <<<<"c","o","m","p","e","t","ê","n","c","i","a"," ","e","s","p","e","c","í","f","i","c","a">>>>,
          <<<<"h","a","b","i","l","i","d","a","d","e"," ","e","s","s","e","n","c","i","a","l">>>>>>],
    [nome |-> "bncc_campos",
     padrao |->
       <<<<<<"c","a","m","p","o"," ","d","e"," ","e","x","p","e","r","i","ê","n","c","i","a">>>>,
          <<<<"á","r","e","a"," ","d","e"," ","c","o","n","h","e","c","i","m","e","n","t","o">>>>>>],
    [nome |-> "bncc_objetivos",
     padrao |->
       <<<<<<"o","b","j","e","t","i","v","o"," ","d","e"," ","a","p","r","e","n","d","i","z","a","g","e","m">>>>,
          <<<<"e","x","p","e","c","t","a","t","i","v","a"," ","d","e"," ","a","p","r","e","n","d","i","z","a","g","e","m">>>>>>],
    [nome |-> "bncc_etapas",
     padrao |->
       <<<<<<"e","d","u","c","a","ç","ã","o"," ","i","n","f","a","n","t","i","l">>>>,
          <<<<"e","n","s","i","n","o"," ","f","u","n","d","a","m","e","n","t","a","l">>>>,
          <<<<"e","n","s","i","n","o"," ","m","é","d","i","o">>>>>>],
    [nome |-> "bncc_areas",
     padrao |->
       <<<<<<"l","i","n","g","u","a","g","e","n","s">>>>,
          <<<<"m","a","t","e","m","á","t","i","c","a">>>>,
          <<<<"c","i","ê","n","c","i","a","s">>>>,
          <<<<"h","u","m","a","n","a","s">>>>>>],
    [nome |-> "bncc_objetivos_gerais",
     padrao |->
       <<<<<<"o","b","j","e","t","i","v","o"," ","g","e","r","a","l">>>>,
          <<<<"f","i","n","a","l","i","d","a","d","e">>>>,
          <<<<"p","r","o","p","ó","s","i","t","o">>>>>>],
    [nome |-> "bncc_principios",
     padrao |->
       <<<<<<"p","r","i","n","c","í","p","i","o">>>>,
          <<<<"f","u","n","d","a","m","e","n","t","o">>>>,
          <<<<"b","a","s","e">>>>>>],
    [nome |-> "bncc_organizacao",
     padrao |->
       <<<<<<"o","r","g","a","n","i","z","a","ç","ã","o">>>>,
          <<<<"e","s","t","r","u","t","u","r","a">>>>,
          <<<<"d","i","s","t","r","i","b","u","i","ç","ã","o">>>>>>],
    [nome |-> "bncc_avaliacao",
     padrao |->
       <<<<<<"a","v","a","l","i","a","ç","ã","o"," ","f","o","r","m","a","t","i","v","a">>>>,
          <<<<"a","v","a","l","i","a","ç","ã","o"," ","d","i","a","g","n","ó","s","t","i","c","a">>>>,
          <<<<"a","v","a","l","i","a","ç","ã","o"," ","s","o","m","a","t","i","v","a">>>>>>],
    [nome |-> "dcrc_competencias_especificas",
     padrao |->
       <<<<<<"c","o","m","p","e","t","ê","n","c","i","a"," ","e","s","p","e","c","í","f","i","c","a">>>>,
          <<<<"h","a","b","i","l","i","d","a","d","e"," ","e","s","p","e","c","í","f","i","c","a">>>>,
          <<<<"d","e","s","c","r","i","ç","ã","o"," ","d","a"," ","h","a","b","i","l","i","d","a","d","e">>>>>>],
    [nome |-> "dcrc_descricoes_habilidades",
     padrao |->
       <<<<<<"d","e","s","c","r","i","ç","ã","o">>>>,
          <<<<"c","a","r","a","c","t","e","r","i","z","a","ç","ã","o">>>>,
          <<<<"d","e","f","i","n","i","ç","ã","o">>, <<"h","a","b","i","l","i","d","a","d","e">>>>>>],
    [nome |-> "dcrc_relacoes_habilidades",
     padrao |->
       <<<<<<"r","e","l","a","ç","ã","o">>, <<"h","a","b","i","l","i","d","a","d","e">>>>,
          <<<<"v","i","n","c","u","l","a","ç","ã","o">>, <<"c","o","m","p","e","t","ê","n","c","i","a">>>>,
          <<<<"c","o","n","e","x","ã","o">>, <<"c","o","m","p","o","n","e","n","t","e">>>>>>]
  >>

\* secoes = {} with every name of padroes_secoes already a key
SecoesComTodasAsChaves ==
  [nome \in {padroes_secoes[n].nome : n \in 1..Len(padroes_secoes)} |-> <<>>]

\* secoes = {}
SecoesVazias == [nome \in {} |-> <<>>]

\* the append that skips a context the list already holds
AcrescentarSemRepetir(secoes, nome_secao, contexto) ==
  IF nome_secao \notin DOMAIN secoes
  THEN [nome \in DOMAIN secoes \cup {nome_secao} |->
          IF nome = nome_secao THEN <<contexto>> ELSE secoes[nome]]
  ELSE IF \E k \in 1..Len(secoes[nome_secao]) :
            secoes[nome_secao][k] = contexto
  THEN secoes
  ELSE [secoes EXCEPT ![nome_secao] = Append(@, contexto)]

\* if nome_secao not in secoes: secoes[nome_secao] = []
\* secoes[nome_secao].append(contexto)
Acrescentar(secoes, nome_secao, contexto) ==
  IF nome_secao \in DOMAIN secoes
  THEN [secoes EXCEPT ![nome_secao] = Append(@, contexto)]
  ELSE [nome \in DOMAIN secoes \cup {nome_secao} |->
          IF nome = nome_secao THEN <<contexto>> ELSE secoes[nome]]

\* the inner loop: one context per match, from the k-th on
RECURSIVE PorMatch(_, _, _, _, _)
PorMatch(secoes, nome_secao, t, matches, k) ==
  IF k > Len(matches) THEN secoes
  ELSE LET inicio == Max(0, matches[k].start - Contexto)
           fim == Min(Len(t), matches[k].end + Contexto)
       IN PorMatch(Acrescentar(secoes, nome_secao, Trecho(t, inicio, fim)),
                   nome_secao, t, matches, k + 1)

\* the outer loop: the patterns in the order of the dict, from the n-th on
RECURSIVE PorPadrao(_, _, _)
PorPadrao(secoes, t, n) ==
  IF n > Len(padroes_secoes) THEN secoes
  ELSE PorPadrao(PorMatch(secoes, padroes_secoes[n].nome, t,
                          Finditer(padroes_secoes[n].padrao, t, 0), 1),
                 t, n + 1)

extrair_secoes_importantes(texto_md) == PorPadrao(SecoesVazias, texto_md, 1)

\* "\n---"
Separador == <<"\n", "-", "-", "-">>

\* texto_md.split('\n---'): the offsets where the separator is (it cannot
\* overlap itself), and the stretches between them
Split_em(t, sep) ==
  LET O == {p \in 0..(Len(t) - Len(sep)) : OcorreEm(t, p, sep)}
      n == Cardinality(O)
      o == [k \in 1..n |-> CHOOSE p \in O : Cardinality({q \in O : q < p}) = k - 1]
  IN [k \in 1..(n + 1) |->
        Trecho(t, IF k = 1 THEN 0 ELSE o[k - 1] + Len(sep),
                  IF k = n + 1 THEN Len(t) ELSE o[k])]

\* every section inspected, however many there are
TodasAsSecoes(secoes) == secoes

\* secoes[-5:] if len(secoes) > 5 else secoes
Ultimas(secoes) ==
  IF Len(secoes) > UltimasSecoes
  THEN SubSeq(secoes, Len(secoes) - UltimasSecoes + 1, Len(secoes))
  ELSE secoes

\* \s of the pattern, on the characters of the model
EhEspaco(c) == c \in Brancos

\* \d
EhDigito(c) == c \in Digitos

\* the offset after the longest run of characters of one class from p on
FimDaCorrida(t, p, Classe) ==
  Menor_de({q \in p..Len(t) : q = Len(t) \/ t[q + 1] \notin Classe})

\* \d+(?:\.\d+)? at offset p, where t has a digit: the offset after it
FimDoNumero(t, p) ==
  LET d == FimDaCorrida(t, p, Digitos)
  IN IF d + 1 < Len(t) /\ t[d + 1] = "." /\ EhDigito(t[d + 2])
     THEN FimDaCorrida(t, d + 1, Digitos)
     ELSE d

\* (?:\s+\d+(?:\.\d+)?)* from offset p on: the offset after the last
\* number that whitespace alone separates from the one before
RECURSIVE FimDosSeguintes(_, _)
FimDosSeguintes(t, p) ==
  LET s == FimDaCorrida(t, p, Brancos)
  IN IF s > p /\ s < Len(t) /\ EhDigito(t[s + 1])
     THEN FimDosSeguintes(t, FimDoNumero(t, s))
     ELSE p

\* re.findall(padrao_tabela, t) from offset pos on: the text of each match
RECURSIVE Findall(_, _)
Findall(t, pos) ==
  LET P == {p \in pos..(Len(t) - 1) : EhDigito(t[p + 1])}
  IN IF P = {} THEN <<>>
     ELSE LET p == Menor_de(P)
              f == FimDosSeguintes(t, FimDoNumero(t, p))
          IN <<Trecho(t, p, f)>> \o Findall(t, f)

\* ', '.join(lista)
RECURSIVE JuntarComVirgula(_)
JuntarComVirgula(lista) ==
  IF Len(lista) = 0 THEN <<>>
  ELSE IF Len(lista) = 1 THEN lista[1]
  ELSE lista[1] \o <<",", " ">> \o JuntarComVirgula(Tail(lista))

Str_DadosNumericos ==
  <<"D","a","d","o","s"," ","n","u","m","é","r","i","c","o","s"," ",
    "e","n","c","o","n","t","r","a","d","o","s",":"," ">>

Reticencias == <<".", ".", ".">>

\* the 'secao' of a candidate, kept whole whatever its length
SecaoInteira(secao) == secao

\* secao[:200] + '...' if len(secao) > 200 else secao
SecaoDoCandidato(secao) ==
  IF Len(secao) > LimiteDoTrecho
  THEN Trecho(secao, 0, LimiteDoTrecho) \o Reticencias
  ELSE secao

\* the loop over ultimas_secoes, from the k-th on
RECURSIVE PorSecao(_, _)
PorSecao(ultimas_secoes, k) ==
  IF k > Len(ultimas_secoes) THEN <<>>
  ELSE LET secao == ultimas_secoes[k]
           matches == Findall(secao, 0)
           dez == Trecho(matches, 0, LimiteDeDados)
       IN (IF Len(matches) > 0
           THEN <<[conteudo |-> Str_DadosNumericos \o JuntarComVirgula(dez),
                   secao |-> SecaoDoCandidato(secao),
                   dados_numericos |-> dez]>>
           ELSE <<>>)
          \o PorSecao(ultimas_secoes, k + 1)

\* nothing in the try body raises on a str
extrair_tabelas_do_md(texto_md) ==
  PorSecao(Ultimas(Split_em(texto_md, Separador)), 1)

\* ------------------------------------------------------------- the caller
VARIABLES
  texto,          \* the corpus handed to dividir_em_chunks
  tamanho_chunk,  \* its tamanho_chunk argument
  sobreposicao,   \* its sobreposicao argument
  fase,           \* "inicio", "dividido", "carregado" or "erro"
  chunks,         \* the list dividir_em_chunks returned
  dados_rag,      \* the record built from chunks and index, or None
  chamadas,       \* the queries made since the last step of the caller
  consulta,       \* the last query
  top_k,          \* its top_k
  similaridades,  \* the cosines that call computed, <<>> if it did not
  retorno,        \* what that call of buscar_informacoes_relevantes gave
  anterior,       \* an earlier call on the same index, kept for comparison
  ia_ativa,               \* st.session_state.ia_ativa
  documentos_carregados,  \* st.session_state.documentos_carregados
  documentos_referencia,  \* st.session_state.documentos_referencia
  pc,             \* the activation handler: "ocioso" or the line it is at
  novo,           \* its local dados_rag, the record it is about to publish
  leitor,         \* an analysis: "fora" or the line it is at
  lido,           \* its local dados_rag, read from the session
  mensagem,       \* the last st.success / st.error of the handler
  entrada_md,     \* the characters of the text processar_md_com_rag was given
  etapa,          \* how far it is: "inicio", "tabelas" or "secoes"
  tabelas,        \* what extrair_tabelas_do_md returned
  secoes_importantes  \* what extrair_secoes_importantes returned

vars ==
  <<texto, tamanho_chunk, sobreposicao, fase, chunks, dados_rag, chamadas,
    consulta, top_k, similaridades, retorno, anterior, ia_ativa,
    documentos_carregados, documentos_referencia, pc, novo, leitor, lido,
    mensagem, entrada_md, etapa, tabelas, secoes_importantes>>

\* the extractors' run
extracao == <<entrada_md, etapa, tabelas, secoes_importantes>>

\* the session and the two activities on it
sessao ==
  <<ia_ativa, documentos_carregados, documentos_referencia, pc, novo, leitor,
    lido, mensagem>>

\* the words corpora and queries are made of
P_habilidade == <<"h","a","b","i","l","i","d","a","d","e">>

P_Habilidade == <<"H","a","b","i","l","i","d","a","d","e">>

P_BNCC == <<"B","N","C","C">>

P_dcrc == <<"d","c","r","c">>

P_nota == <<"n","o","t","a">>

P_x == <<"x">>

Vocabulario == {P_habilidade, P_BNCC, P_dcrc, P_nota, P_x}

\* corpora: up to MaxPalavras words joined by single spaces, and corpora
\* with other whitespace
TextosEmBranco == {<<ESPACO>>, <<<<"\n", " ">>>>}

TextosIrregulares ==
  {<<<<"\n">>, P_nota, <<" ", " ">>, P_habilidade, ESPACO>>,
   <<ESPACO, P_x, <<"\t">>, P_x>>,
   <<<<"?", "!">>, ESPACO, P_x>>}

Textos ==
  {Join(ps) : ps \in UNION {[1..n -> Vocabulario] : n \in 0..MaxPalavras}}
    \cup TextosEmBranco \cup TextosIrregulares

Configuracoes ==
  ((1..MaxTamanho) \X (0..MaxSobreposicao))
    \cup {<<TamanhoChunkPadrao, SobreposicaoPadrao>>}

ConsultaNone == [nulo |-> TRUE, valor |-> <<>>]

\* None where a text is expected
SemTexto == [nulo |-> TRUE, valor |-> <<>>]

Str(s) == [nulo |-> FALSE, valor |-> s]

Consultas ==
  {ConsultaNone, Str(Join(<<P_x>>)), Str(Join(<<P_nota>>)),
   Str(Join(<<P_habilidade>>)), Str(Join(<<P_Habilidade, P_x>>))}

DadosRagNone ==
  [nulo |-> TRUE, chunks |-> <<>>, indice_similaridade |-> IndiceNone,
   texto_completo |-> <<>>]

SemRetorno == [raised |-> FALSE, valor |-> <<>>]

\* depois counts the calls made after the remembered one, up to MaxDepois
SemAnterior ==
  [nulo |-> TRUE, consulta |-> ConsultaNone, top_k |-> 0,
   retorno |-> SemRetorno, depois |-> 0]

\* nothing is loaded yet
Init ==
  /\ texto = <<>>
  /\ tamanho_chunk = TamanhoChunkPadrao
  /\ sobreposicao = SobreposicaoPadrao
  /\ fase = "inicio"
  /\ chunks = <<>>
  /\ dados_rag = DadosRagNone
  /\ chamadas = 0
  /\ consulta = ConsultaNone
  /\ top_k = 0
  /\ similaridades = <<>>
  /\ retorno = SemRetorno
  /\ anterior = SemAnterior
  /\ ia_ativa = FALSE
  /\ documentos_carregados = FALSE
  /\ documentos_referencia = SemTexto
  /\ pc = "ocioso"
  /\ novo = DadosRagNone
  /\ leitor = "fora"
  /\ lido = DadosRagNone
  /\ mensagem = ""
  /\ entrada_md = <<>>
  /\ etapa = "inicio"
  /\ tabelas = <<>>
  /\ secoes_importantes = SecoesVazias

\* chunks = dividir_em_chunks(t, c[1], c[2]) for a corpus t and a
\* configuration c; a ValueError ends the load
Dividir ==
  /\ fase = "inicio"
  /\ \E t \in Textos, c \in Configuracoes :
       LET r == dividir_em_chunks(t, c[1], c[2])
       IN /\ texto' = t
          /\ tamanho_chunk' = c[1]
          /\ sobreposicao' = c[2]
          /\ fase' = IF r.raised THEN "erro" ELSE "dividido"
          /\ chunks' = r.valor
  /\ chamadas' = 0
  /\ consulta' = ConsultaNone
  /\ top_k' = 0
  /\ similaridades' = <<>>
  /\ retorno' = SemRetorno
  /\ UNCHANGED <<dados_rag, anterior, sessao,
                 extracao>>

\* the record of processar_md_com_rag, from the chunks and their index
Carregar ==
  /\ fase = "dividido"
  /\ LET r == criar_indice_similaridade(chunks)
     IN IF r.raised
        THEN fase' = "erro" /\ UNCHANGED dados_rag
        ELSE /\ fase' = "carregado"
             /\ dados_rag' =
                  [nulo |-> FALSE, chunks |-> chunks,
                   indice_similaridade |-> r.valor, texto_completo |-> texto]
  /\ chamadas' = 0
  /\ consulta' = ConsultaNone
  /\ top_k' = 0
  /\ similaridades' = <<>>
  /\ retorno' = SemRetorno
  /\ UNCHANGED <<texto, tamanho_chunk, sobreposicao, chunks, anterior, sessao,
                 extracao>>

\* buscar_informacoes_relevantes(consulta, dados_rag, top_k), before a
\* load, after one, or after one that failed
Buscar ==
  /\ fase # "dividido"
  /\ chamadas = 0
  /\ \E c \in Consultas, k \in 0..MaxTopK :
       LET r == buscar_informacoes_relevantes(c, dados_rag, k)
       IN /\ consulta' = c
          /\ top_k' = k
          /\ similaridades' = r.escores
          /\ retorno' = [raised |-> r.raised, valor |-> r.valor]
  /\ dados_rag' = DadosDepoisDaBusca(dados_rag)
  /\ chamadas' = 1
  /\ UNCHANGED <<texto, tamanho_chunk, sobreposicao, fase, chunks,
                 anterior, sessao,
                 extracao>>

Next == Dividir \/ Carregar \/ Buscar

Spec == Init /\ [][Next]_vars

\* ------------------------------------------- the passes on given cosines
\* corpora of one word per chunk, with and without an ability word
TextosDosPassos ==
  {Join(ps) : ps \in UNION {[1..n -> {P_habilidade, P_nota}] :
                              n \in 1..MaxPalavras}}

\* cosines (squared): 0, 0.05 exactly, just above 0.05, and 1
Escores == {Fracao(0, 1), Limiar, Fracao(1, 399), Fracao(1, 1)}

ConsultasDosPassos == {Str(Join(<<P_nota>>)), Str(Join(<<P_habilidade>>))}

\* dividir_em_chunks(t, 1, 0): one chunk per word
DividirPorPalavra ==
  /\ fase = "inicio"
  /\ \E t \in TextosDosPassos :
       LET r == dividir_em_chunks(t, 1, 0)
       IN /\ texto' = t
          /\ tamanho_chunk' = 1
          /\ sobreposicao' = 0
          /\ fase' = IF r.raised THEN "erro" ELSE "dividido"
          /\ chunks' = r.valor
  /\ UNCHANGED <<dados_rag, chamadas, consulta, top_k, similaridades, retorno,
                 anterior, sessao,
                 extracao>>

\* lines 656-720 of buscar_informacoes_relevantes on the chunks and a
\* similarity vector e, one cosine per chunk
AplicarPassos ==
  /\ fase = "dividido"
  /\ chamadas = 0
  /\ \E c \in ConsultasDosPassos, k \in 0..MaxTopK,
        e \in [1..Len(chunks) -> Escores] :
       /\ consulta' = c
       /\ top_k' = k
       /\ similaridades' = e
       /\ retorno' = [raised |-> FALSE, valor |-> Passos(c.valor, chunks, e, k)]
  /\ chamadas' = 1
  /\ UNCHANGED <<texto, tamanho_chunk, sobreposicao, fase, chunks, dados_rag,
                 anterior, sessao,
                 extracao>>

NextDosPassos == DividirPorPalavra \/ AplicarPassos

SpecDosPassos == Init /\ [][NextDosPassos]_vars

\* --------------------------------------------------- the query expansion
\* corpora of one word per chunk, each word in the tail of one category only
TextosDeCategoria ==
  {Join(ps) : ps \in UNION {[1..n -> {<<"c","a","p","a","c","i","d","a","d","e">>,
                                      <<"d","e","s","e","m","p","e","n","h","o">>,
                                      <<"f","r","e","q","u","ê","n","c","i","a">>,
                                      <<"i","n","d","i","c","a","d","o","r","e","s">>}] :
                              n \in 1..2}}

\* queries with the trigger of one category, of two, and of none
ConsultasDeCategoria ==
  {Str(Join(<<<<"d","e","s","e","m","p","e","n","h","o">>, <<"h","a","b","i","l","i","d","a","d","e">>>>)),
   Str(Join(<<<<"p","a","r","t","i","c","i","p","a","ç","ã","o">>, <<"d","e","s","e","m","p","e","n","h","o">>>>)),
   Str(Join(<<<<"P","A","R","T","I","C","I","P","A","Ç","Ã","O">>>>)),
   Str(Join(<<<<"C","o","m","p","e","t","ê","n","c","i","a">>, <<"p","a","r","t","i","c","i","p","a","ç","ã","o">>>>)),
   Str(Join(<<<<"P","r","o","f","i","c","i","ê","n","c","i","a">>>>)),
   Str(Join(<<<<"n","o","t","a">>>>)),
   Str(Join(<<<<"x">>, <<"p","a","r","t","i","c","i","p","a","ç","ã","o">>>>)),
   Str(Join(<<<<"D","E","S","E","M","P","E","N","H","O">>, <<"x">>>>))}

\* dividir_em_chunks(t, 1, 0): one chunk per word
DividirPorCategoria ==
  /\ fase = "inicio"
  /\ \E t \in TextosDeCategoria :
       LET r == dividir_em_chunks(t, 1, 0)
       IN /\ texto' = t
          /\ tamanho_chunk' = 1
          /\ sobreposicao' = 0
          /\ fase' = IF r.raised THEN "erro" ELSE "dividido"
          /\ chunks' = r.valor
  /\ UNCHANGED <<dados_rag, chamadas, consulta, top_k, similaridades, retorno,
                 anterior, sessao, extracao>>

\* buscar_informacoes_relevantes(c, dados_rag, k) on the loaded index
BuscarPorCategoria ==
  /\ fase = "carregado"
  /\ chamadas = 0
  /\ \E c \in ConsultasDeCategoria, k \in 0..MaxTopK :
       LET r == buscar_informacoes_relevantes(c, dados_rag, k)
       IN /\ consulta' = c
          /\ top_k' = k
          /\ similaridades' = r.escores
          /\ retorno' = [raised |-> r.raised, valor |-> r.valor]
  /\ dados_rag' = DadosDepoisDaBusca(dados_rag)
  /\ chamadas' = 1
  /\ UNCHANGED <<texto, tamanho_chunk, sobreposicao, fase, chunks,
                 anterior, sessao, extracao>>

NextExpandir == DividirPorCategoria \/ Carregar \/ BuscarPorCategoria

SpecExpandir == Init /\ [][NextExpandir]_vars

\* ----------------------------------------------------- repeated queries
\* call after call on one loaded index; one earlier call is remembered
Rechamar ==
  /\ fase = "carregado"
  /\ \E c \in ConsultasDosPassos, k \in 0..MaxTopK, lembrar \in BOOLEAN :
       LET r == buscar_informacoes_relevantes(c, dados_rag, k)
           dado == [raised |-> r.raised, valor |-> r.valor]
       IN /\ consulta' = c
          /\ top_k' = k
          /\ similaridades' = r.escores
          /\ retorno' = dado
          /\ anterior' =
               IF anterior.nulo
               THEN IF lembrar
                    THEN [nulo |-> FALSE, consulta |-> c, top_k |-> k,
                          retorno |-> dado, depois |-> 0]
                    ELSE anterior
               ELSE [anterior EXCEPT !.depois = Min(@ + 1, MaxDepois)]
  /\ dados_rag' = DadosDepoisDaBusca(dados_rag)
  /\ chamadas' = 1
  /\ UNCHANGED <<texto, tamanho_chunk, sobreposicao, fase, chunks, sessao,
                 extracao>>

NextRepetir == DividirPorPalavra \/ Carregar \/ Rechamar

SpecRepetir == Init /\ [][NextRepetir]_vars

\* ------------------------------------------------------------ the session
\* a + b on texts: the items at the seam merge when both are whitespace
\* or both are not
Concat(a, b) ==
  IF a = <<>> THEN b
  ELSE IF b = <<>> THEN a
  ELSE IF EhBranco(a[Len(a)]) = EhBranco(b[1])
  THEN SubSeq(a, 1, Len(a) - 1) \o <<a[Len(a)] \o b[1]>>
         \o SubSeq(b, 2, Len(b))
  ELSE a \o b

\* f"DCRC:\n{texto_dcrc}\n\nBNCC:\n{texto_bncc}"
TextoCombinado(texto_dcrc, texto_bncc) ==
  Concat(Concat(Concat(Concat(
    <<<<"D", "C", "R", "C", ":">>, <<"\n">>>>, texto_dcrc),
    <<<<"\n", "\n">>, <<"B", "N", "C", "C", ":">>, <<"\n">>>>), texto_bncc),
    <<>>)

\* dcrc.md and bncc.md as they may be on disk: missing, empty, or a text
Arquivos ==
  {[existe |-> FALSE, conteudo |-> <<>>],
   [existe |-> TRUE, conteudo |-> <<>>],
   [existe |-> TRUE, conteudo |-> Join(<<P_nota>>)],
   [existe |-> TRUE, conteudo |-> Join(<<P_habilidade, P_x>>)]}

\* the file's text, or None when open() fails
extrair_texto_md(arquivo) ==
  IF arquivo.existe THEN Str(arquivo.conteudo) ELSE SemTexto

\* if texto: neither None nor ''
TextoVerdadeiro(t) == ~t.nulo /\ t.valor # <<>>

\* the record of one load, or None when anything in the try raised
processar_md_com_rag(texto_md) ==
  LET d == dividir_em_chunks(texto_md, TamanhoChunkPadrao, SobreposicaoPadrao)
      i == criar_indice_similaridade(d.valor)
  IN IF d.raised \/ i.raised THEN DadosRagNone
     ELSE [nulo |-> FALSE, chunks |-> d.valor,
           indice_similaridade |-> i.valor, texto_completo |-> texto_md]

\* top_k=3 of the call in analisar_dataframe_com_groq
TopKDaAnalise == 3

\* the session's record after the handler's write, field by field into
\* the record that is there
PublicadoPorCampos(antigo, registro) ==
  IF antigo.nulo THEN registro
  ELSE [antigo EXCEPT !.texto_completo = registro.texto_completo]

\* the session's record after st.session_state.dados_rag = dados_rag
Publicado(antigo, registro) == registro

\* "Desativar Análise IA" that also forgets the load
DesativarEsquecendo ==
  /\ pc = "ocioso"
  /\ ia_ativa
  /\ ia_ativa' = FALSE
  /\ documentos_carregados' = FALSE
  /\ mensagem' = ""
  /\ UNCHANGED <<extracao, texto, tamanho_chunk, sobreposicao, fase, chunks, dados_rag,
                 chamadas, consulta, top_k, similaridades, retorno, anterior,
                 documentos_referencia, pc, novo, leitor, lido>>

\* "Desativar Análise IA"
Desativar ==
  /\ pc = "ocioso"
  /\ ia_ativa
  /\ ia_ativa' = FALSE
  /\ mensagem' = ""
  /\ UNCHANGED <<extracao, texto, tamanho_chunk, sobreposicao, fase, chunks, dados_rag,
                 chamadas, consulta, top_k, similaridades, retorno, anterior,
                 documentos_carregados, documentos_referencia, pc, novo,
                 leitor, lido>>

\* A variant of line 3446 that raises 'ia_ativa' before the record and the
\* loaded flag are published
Publicar3446AtivandoAntes ==
  /\ pc = "L3446"
  /\ documentos_referencia' = Str(texto)
  /\ ia_ativa' = TRUE
  /\ pc' = "L3447"
  /\ UNCHANGED <<extracao, texto, tamanho_chunk, sobreposicao, fase, chunks, dados_rag,
                 chamadas, consulta, top_k, similaridades, retorno, anterior,
                 documentos_carregados, novo, leitor, lido, mensagem>>

\* A variant of the activation handler that clears the published record
\* and the loaded flag when the activation fails
AtivarLimpandoNaFalha ==
  /\ pc = "ocioso"
  /\ ~ia_ativa
  /\ \E a_dcrc \in Arquivos, a_bncc \in Arquivos :
       LET texto_dcrc == extrair_texto_md(a_dcrc)
           texto_bncc == extrair_texto_md(a_bncc)
           texto_combinado == TextoCombinado(texto_dcrc.valor, texto_bncc.valor)
           processado == processar_md_com_rag(texto_combinado)
       IN IF TextoVerdadeiro(texto_dcrc) /\ TextoVerdadeiro(texto_bncc) /\ ~processado.nulo
          THEN /\ texto' = texto_combinado
               /\ novo' = processado
               /\ pc' = "L3446"
               /\ mensagem' = ""
               /\ UNCHANGED <<dados_rag, documentos_carregados>>
          ELSE /\ mensagem' = "Erro ao extrair texto"
               /\ dados_rag' = DadosRagNone
               /\ documentos_carregados' = FALSE
               /\ UNCHANGED <<texto, novo, pc>>
  /\ UNCHANGED <<extracao, tamanho_chunk, sobreposicao, fase, chunks,
                 chamadas, consulta, top_k, similaridades, retorno, anterior,
                 ia_ativa, documentos_referencia, leitor, lido>>

\* "Ativar Análise IA" up to the test of the processed record: the files
\* are read and processed; on success the handler goes on to publish
Ativar ==
  /\ pc = "ocioso"
  /\ ~ia_ativa
  /\ \E a_dcrc \in Arquivos, a_bncc \in Arquivos :
       LET texto_dcrc == extrair_texto_md(a_dcrc)
           texto_bncc == extrair_texto_md(a_bncc)
           texto_combinado == TextoCombinado(texto_dcrc.valor, texto_bncc.valor)
           processado == processar_md_com_rag(texto_combinado)
       IN IF TextoVerdadeiro(texto_dcrc) /\ TextoVerdadeiro(texto_bncc)
          THEN IF ~processado.nulo
               THEN /\ texto' = texto_combinado
                    /\ novo' = processado
                    /\ pc' = "L3446"
                    /\ mensagem' = ""
               ELSE /\ mensagem' = "Erro ao processar os documentos"
                    /\ UNCHANGED <<texto, novo, pc>>
          ELSE /\ mensagem' = "Erro ao extrair texto"
               /\ UNCHANGED <<texto, novo, pc>>
  /\ UNCHANGED <<extracao, tamanho_chunk, sobreposicao, fase, chunks, dados_rag,
                 chamadas, consulta, top_k, similaridades, retorno, anterior,
                 ia_ativa, documentos_carregados, documentos_referencia,
                 leitor, lido>>

\* st.session_state.documentos_referencia = texto_combinado
Publicar3446 ==
  /\ pc = "L3446"
  /\ documentos_referencia' = Str(texto)
  /\ pc' = "L3447"
  /\ UNCHANGED <<extracao, texto, tamanho_chunk, sobreposicao, fase, chunks, dados_rag,
                 chamadas, consulta, top_k, similaridades, retorno, anterior,
                 ia_ativa, documentos_carregados, novo, leitor, lido,
                 mensagem>>

\* st.session_state.dados_rag = dados_rag
Publicar3447 ==
  /\ pc = "L3447"
  /\ dados_rag' = Publicado(dados_rag, novo)
  /\ pc' = "L3448"
  /\ UNCHANGED <<extracao, texto, tamanho_chunk, sobreposicao, fase, chunks, chamadas,
                 consulta, top_k, similaridades, retorno, anterior, ia_ativa,
                 documentos_carregados, documentos_referencia, novo, leitor,
                 lido, mensagem>>

\* st.session_state.documentos_carregados = True
Publicar3448 ==
  /\ pc = "L3448"
  /\ documentos_carregados' = TRUE
  /\ pc' = "L3449"
  /\ UNCHANGED <<extracao, texto, tamanho_chunk, sobreposicao, fase, chunks, dados_rag,
                 chamadas, consulta, top_k, similaridades, retorno, anterior,
                 ia_ativa, documentos_referencia, novo, leitor, lido,
                 mensagem>>

\* st.session_state.ia_ativa = True, st.success, st.rerun
Publicar3449 ==
  /\ pc = "L3449"
  /\ ia_ativa' = TRUE
  /\ mensagem' = "IA ativada com sucesso"
  /\ pc' = "ocioso"
  /\ UNCHANGED <<extracao, texto, tamanho_chunk, sobreposicao, fase, chunks, dados_rag,
                 chamadas, consulta, top_k, similaridades, retorno, anterior,
                 documentos_carregados, documentos_referencia, novo, leitor,
                 lido>>

\* the gate of an analysis panel: documentos_carregados and ia_ativa
AbrirAnalise ==
  /\ leitor = "fora"
  /\ documentos_carregados
  /\ ia_ativa
  /\ leitor' = "L1269"
  /\ UNCHANGED <<extracao, texto, tamanho_chunk, sobreposicao, fase, chunks, dados_rag,
                 chamadas, consulta, top_k, similaridades, retorno, anterior,
                 ia_ativa, documentos_carregados, documentos_referencia, pc,
                 novo, lido, mensagem>>

\* analisar_dataframe_com_groq: the test of the session and
\* dados_rag = st.session_state['dados_rag']
LerDados ==
  /\ leitor = "L1269"
  /\ IF documentos_carregados /\ ~dados_rag.nulo
     THEN lido' = dados_rag /\ leitor' = "L1274"
     ELSE leitor' = "fora" /\ UNCHANGED lido
  /\ UNCHANGED <<extracao, texto, tamanho_chunk, sobreposicao, fase, chunks, dados_rag,
                 chamadas, consulta, top_k, similaridades, retorno, anterior,
                 ia_ativa, documentos_carregados, documentos_referencia, pc,
                 novo, mensagem>>

\* buscar_informacoes_relevantes(consulta_especifica, dados_rag, top_k=3)
Consultar ==
  /\ leitor = "L1274"
  /\ \E c \in ConsultasDosPassos :
       LET r == buscar_informacoes_relevantes(c, lido, TopKDaAnalise)
       IN /\ consulta' = c
          /\ top_k' = TopKDaAnalise
          /\ similaridades' = r.escores
          /\ retorno' = [raised |-> r.raised, valor |-> r.valor]
  /\ chamadas' = 1
  /\ leitor' = "fora"
  /\ UNCHANGED <<extracao, texto, tamanho_chunk, sobreposicao, fase, chunks, dados_rag,
                 anterior, ia_ativa, documentos_carregados,
                 documentos_referencia, pc, novo, lido, mensagem>>

NextSessao ==
  \/ Desativar
  \/ Ativar
  \/ Publicar3446
  \/ Publicar3447
  \/ Publicar3448
  \/ Publicar3449
  \/ AbrirAnalise
  \/ LerDados
  \/ Consultar

SpecSessao == Init /\ [][NextSessao]_vars

\* ---------------------------------------------------------------- claims
\* a call of buscar_informacoes_relevantes has come back
Retornou == chamadas = 1

\* the list it returned
Resultados == retorno.valor

\* the data record holds a similarity index
TemIndice == ~dados_rag.nulo /\ ~dados_rag.indice_similaridade.nulo

\* C1: every entry buscar_informacoes_relevantes returns carries a 'fonte'
\* that is "BNCC" or "DCRC", whichever pass produced the entry.
C1_TodaEntradaTemFonte ==
  Retornou =>
    \A i \in 1..Len(Resultados) :
      /\ "fonte" \in DOMAIN Resultados[i]
      /\ Resultados[i].fonte \in {"BNCC", "DCRC"}

\* C2: buscar_informacoes_relevantes never raises, whatever the query (None
\* included), and returns the empty list when dados_rag is None or holds no
\* index.
C2_BuscarNuncaLevanta ==
  Retornou =>
    /\ ~retorno.raised
    /\ ~TemIndice => Resultados = <<>>

\* C2 happens: a None query against a loaded index, whose AttributeError
\* came back as an empty list
C2_ConsultaNoneComIndice ==
  Retornou /\ consulta.nulo /\ TemIndice /\ Resultados = <<>>

\* C3: on empty or whitespace-only text dividir_em_chunks returns an empty
\* list (whenever its stride is not zero), criar_indice_similaridade returns
\* None on it without raising, and every query on the resulting record
\* returns the empty list; nothing raises on the way.
C3_CorpusVazio ==
  (Split(texto) = <<>> /\ tamanho_chunk # sobreposicao) =>
    /\ fase # "erro"
    /\ fase \in {"dividido", "carregado"} => chunks = <<>>
    /\ fase = "carregado" =>
         /\ ~dados_rag.nulo
         /\ dados_rag.indice_similaridade.nulo
         /\ Retornou => ~retorno.raised /\ Resultados = <<>>

\* C3 happens: a whitespace-only corpus was chunked and loaded, and a query
\* on it came back
C3_ConsultaEmCorpusEmBranco ==
  /\ texto \in TextosEmBranco
  /\ tamanho_chunk # sobreposicao
  /\ fase = "carregado"
  /\ Retornou
  /\ ~consulta.nulo

\* C4: the chunk at position k (from 0) of the list dividir_em_chunks
\* returns has indice = k.
C4_IndicesContiguos ==
  fase \in {"dividido", "carregado"} =>
    \A k \in 1..Len(chunks) : chunks[k].indice = k - 1

\* C4 happens: a list of chunks whose word positions are not their list
\* positions
C4_ChunksDePassoDois ==
  /\ fase = "dividido"
  /\ Len(chunks) >= 2
  /\ chunks[2].posicao_inicial = 2

\* the words that chunk k and chunk k + 1 of the list both cover
Compartilhadas(k) ==
  LET a == Split(chunks[k].texto)
      b == Split(chunks[k + 1].texto)
      fim_a == chunks[k].posicao_inicial + Len(a)
      ini_b == chunks[k + 1].posicao_inicial
  IN IF fim_a > ini_b THEN fim_a - ini_b ELSE 0

\* the last n words of chunk k are the first n words of chunk k + 1
CaudaIgualCabeca(k, n) ==
  LET a == Split(chunks[k].texto)
      b == Split(chunks[k + 1].texto)
  IN /\ Len(a) >= n
     /\ Len(b) >= n
     /\ SubSeq(a, Len(a) - n + 1, Len(a)) = SubSeq(b, 1, n)

\* C5 as stated: with 0 < sobreposicao < tamanho_chunk, every two
\* consecutive chunks share exactly sobreposicao words.
C5_SobreposicaoExata ==
  (fase = "dividido" /\ 0 < sobreposicao /\ sobreposicao < tamanho_chunk) =>
    \A k \in 1..(Len(chunks) - 1) :
      Compartilhadas(k) = sobreposicao /\ CaudaIgualCabeca(k, sobreposicao)

\* C5: with 0 < sobreposicao < tamanho_chunk, chunk k and chunk k + 1 share
\* exactly sobreposicao words whenever chunk k holds tamanho_chunk words;
\* when chunk k is shorter (the text ended inside it) they share the whole
\* of chunk k + 1, which is fewer than sobreposicao words.
C5_SobreposicaoExataDeChunkCheio ==
  (fase = "dividido" /\ 0 < sobreposicao /\ sobreposicao < tamanho_chunk) =>
    \A k \in 1..(Len(chunks) - 1) :
      LET a == Split(chunks[k].texto)
          b == Split(chunks[k + 1].texto)
      IN IF Len(a) = tamanho_chunk
         THEN /\ Compartilhadas(k) = sobreposicao
              /\ CaudaIgualCabeca(k, sobreposicao)
         ELSE /\ Compartilhadas(k) = Len(b)
              /\ Compartilhadas(k) < sobreposicao

\* C5 happens: a full chunk followed by a chunk, with an overlap in between
C5_ChunkCheioSeguido ==
  /\ fase = "dividido"
  /\ 0 < sobreposicao
  /\ sobreposicao < tamanho_chunk
  /\ Len(chunks) >= 2
  /\ Len(Split(chunks[1].texto)) = tamanho_chunk

\* max(1, tamanho_chunk - sobreposicao), the stride the claim describes
PassoGuardado ==
  IF tamanho_chunk - sobreposicao > 1 THEN tamanho_chunk - sobreposicao ELSE 1

\* C6 as stated: dividir_em_chunks advances by max(1, tamanho_chunk -
\* sobreposicao), so with sobreposicao >= tamanho_chunk it neither raises
\* nor loses text: there is a chunk at every multiple of that stride.
C6_PassoMinimoUm ==
  fase \in {"dividido", "erro"} =>
    LET n == Len(Split(texto))
        posicoes == {i \in 0..(n - 1) : i % PassoGuardado = 0}
    IN /\ fase # "erro"
       /\ Len(chunks) = Cardinality(posicoes)
       /\ \A k \in 1..Len(chunks) :
            chunks[k].posicao_inicial = (k - 1) * PassoGuardado

\* some chunk text holds two word characters in a row, a token of the
\* vectorizer's pattern
TemToken(cs) ==
  \E k \in 1..Len(cs) :
    \E i \in 1..Len(cs[k].texto) :
      LET item == cs[k].texto[i]
      IN \E j \in 1..(Len(item) - 1) :
           EhCaractereDePalavra(item[j]) /\ EhCaractereDePalavra(item[j + 1])

\* C7 as stated: for a list of at least one chunk criar_indice_similaridade
\* never returns None, whatever the chunk texts are.
C7_IndiceNuncaNone ==
  (fase = "carregado" /\ Len(chunks) >= 1) =>
    ~dados_rag.indice_similaridade.nulo

\* C7: for a list of at least one chunk criar_indice_similaridade returns
\* an index exactly when some chunk text holds a token of two or more word
\* characters; on chunks of one-character words or punctuation only it
\* returns None.
C7_IndiceSeHaToken ==
  (fase = "carregado" /\ Len(chunks) >= 1) =>
    (dados_rag.indice_similaridade.nulo <=> ~TemToken(chunks))

\* C7 happens: one chunk with a token among chunks without, indexed
C7_IndiceDeChunksComToken ==
  /\ fase = "carregado"
  /\ Len(chunks) >= 2
  /\ TemToken(chunks)
  /\ ~TemToken(<<chunks[1]>>)
  /\ ~dados_rag.indice_similaridade.nulo

\* the scores of positions i and i + 1 do not increase
NaoCresce(i) ==
  ~Menor(Resultados[i].similaridade, Resultados[i + 1].similaridade)

\* C8 as stated: the returned list is in non-increasing order of
\* similaridade from first to last, entries of the ability pass included.
C8_OrdemNaoCrescente ==
  Retornou => \A i \in 1..(Len(Resultados) - 1) : NaoCresce(i)

\* C8: the returned list is a prefix in non-increasing order of
\* similaridade followed by entries of score 0.4 only, and the whole list is
\* in non-increasing order when the query is not an ability query.
C8_OrdemAteOPassoHabilidade ==
  Retornou =>
    \E p \in 0..Len(Resultados) :
      /\ \A i \in 1..(p - 1) : NaoCresce(i)
      /\ \A i \in (p + 1)..Len(Resultados) :
           Resultados[i].similaridade = SimilaridadeHabilidade
      /\ (~consulta.nulo /\ ~ConsultaDeHabilidade(consulta.valor)) =>
           p = Len(Resultados)

\* C8 happens: two entries of the similarity pass with different scores,
\* then an entry of the ability pass above the second
C8_ReforcoAcimaDoSegundo ==
  /\ Retornou
  /\ Len(Resultados) = 3
  /\ Menor(Resultados[2].similaridade, Resultados[1].similaridade)
  /\ Menor(Resultados[2].similaridade, Resultados[3].similaridade)
  /\ Resultados[3].similaridade = SimilaridadeHabilidade

\* C9 as stated: for every top_k >= 0 the list holds at most top_k entries,
\* at most 2 * top_k for an ability query.
C9_NoMaximoTopK ==
  (Retornou /\ ~consulta.nulo) =>
    Len(Resultados) <=
      IF ConsultaDeHabilidade(consulta.valor) THEN 2 * top_k ELSE top_k

\* the cosine line 654 computed for the chunk of entry i
CossenoDaEntrada(i) == similaridades[Resultados[i].chunk.indice + 1]

\* C10: an entry's similaridade is its chunk's cosine, strictly above 0.05
\* and at most 1, or else the score 0.4 or 0.3 of a later pass; so a chunk
\* whose cosine is exactly 0.05 appears only with 0.4 or 0.3.
C10_LimiarEstrito ==
  (Retornou /\ similaridades # <<>>) =>
    \A i \in 1..Len(Resultados) :
      LET s == Resultados[i].similaridade
      IN \/ /\ s = CossenoDaEntrada(i)
            /\ Maior(s, Limiar)
            /\ ~Maior(s, Fracao(1, 1))
         \/ s \in {SimilaridadeHabilidade, SimilaridadePalavraChave}

\* C10 happens: among the top_k chunks one has cosine exactly 0.05 and one
\* is just above; the second is returned with its cosine, the first with
\* the score of the ability pass
C10_ChunkNoLimiar ==
  /\ Retornou
  /\ Len(Resultados) = 2
  /\ top_k = 2
  /\ CossenoDaEntrada(1) = Fracao(1, 399)
  /\ Resultados[1].similaridade = Fracao(1, 399)
  /\ CossenoDaEntrada(2) = Limiar
  /\ Resultados[2].similaridade = SimilaridadeHabilidade

DaPassagemPrimaria(i) ==
  /\ "fonte" \in DOMAIN Resultados[i]
  /\ Resultados[i].similaridade = CossenoDaEntrada(i)
  /\ Maior(Resultados[i].similaridade, Limiar)

\* C12 as stated: of two chunks with the same cosine the one with the
\* smaller indice comes first among the entries of the similarity pass, and
\* is the one kept when top_k cuts between them.
C12_EmpateMenorIndicePrimeiro ==
  (Retornou /\ similaridades # <<>>) =>
    /\ \A i, j \in 1..Len(Resultados) :
         (/\ i < j
          /\ DaPassagemPrimaria(i)
          /\ DaPassagemPrimaria(j)
          /\ Resultados[i].similaridade = Resultados[j].similaridade) =>
           Resultados[i].chunk.indice < Resultados[j].chunk.indice
    /\ \A i \in 1..Len(Resultados) :
         DaPassagemPrimaria(i) =>
           \A c \in 1..Len(similaridades) :
             (/\ similaridades[c] = Resultados[i].similaridade
              /\ \A j \in 1..Len(Resultados) :
                   Resultados[j].chunk.indice # c - 1) =>
               Resultados[i].chunk.indice < c - 1

\* C13 as stated: when the query is the literal text of a chunk of the
\* loaded index and top_k >= 1, an entry with that text is among the first
\* top_k entries and no returned entry has a greater score.
C13_ConsultaLiteralNoTopo ==
  (Retornou /\ TemIndice /\ ~consulta.nulo /\ top_k >= 1) =>
    \A c \in 1..Len(dados_rag.chunks) :
      dados_rag.chunks[c].texto = consulta.valor =>
        \E i \in 1..Min(top_k, Len(Resultados)) :
          /\ Resultados[i].texto = consulta.valor
          /\ \A j \in 1..Len(Resultados) :
               ~Menor(Resultados[i].similaridade, Resultados[j].similaridade)

\* ------------------------------------------- the extractors' caller
\* how many pieces a text is made of
MaxPedacos == 3

\* the pieces texts are made of
Pedacos ==
  {<<"M","é","t","o","d","o">>,
   <<"i","n","d","i","c","a","d","o","r">>,
   <<"d","e","f","i","n","i","ç","ã","o">>,
   <<" ","d","a"," ","h","a","b","i","l","i","d","a","d","e">>,
   <<"\n">>,
   <<"x"," ">>,
   <<"1","2">>,
   <<" ","3",".","5">>,
   <<".">>,
   <<"\n","-","-","-">>}

\* the texts of at most n pieces
RECURSIVE TextosDe(_)
TextosDe(n) ==
  IF n = 0 THEN {<<>>}
  ELSE LET m == TextosDe(n - 1)
       IN m \cup {a \o b : a \in m, b \in Pedacos}

\* n characters of filler
Encher(n) == [i \in 1..n |-> "a"]

\* texts past the limits of the extractors: sections of 200, 201 and 202
\* characters, 11 numbers in one section, 7 sections, a keyword (once, and
\* twice) more than 500 characters from both ends, and ".*" against a
\* newline and against two closing words
TextosLongos ==
  {<<"7">> \o Encher(LimiteDoTrecho - 1),
   <<"7">> \o Encher(LimiteDoTrecho),
   Encher(LimiteDoTrecho + 1) \o <<"7">>,
   Encher(LimiteDoTrecho) \o <<".",".",".">> \o <<"7">>,
   [i \in 1..(2 * LimiteDeDados + 2) |->
      IF i % 2 = 0 THEN "a"
      ELSE <<"0","1","2","3","4","5","6","7","8","9">>[((i \div 2) % 10) + 1]],
   <<"1","\n","-","-","-","2","\n","-","-","-","3","\n","-","-","-","4","\n","-","-","-","5","\n","-","-","-","6","\n","-","-","-","7">>,
   Encher(Contexto + 100) \o <<"T","a","b","e","l","a">> \o Encher(Contexto + 100),
   Encher(Contexto + 100) \o <<"T","a","b","e","l","a","t","a","b","e","l","a">>
     \o Encher(Contexto + 100),
   <<"d","e","f","i","n","i","ç","ã","o"," ","x","\n"," ","d","a"," ","h","a","b","i","l","i","d","a","d","e">>,
   <<"D","e","f","i","n","i","ç","ã","o"," ","d","e"," ","h","a","b","i","l","i","d","a","d","e"," ","e"," ","H","A","B","I","L","I","D","A","D","E"," ","x">>}

TextosMd == TextosDe(MaxPedacos) \cup TextosLongos

\* tabelas = extrair_tabelas_do_md(entrada_md)
ExtrairTabelas ==
  /\ etapa = "inicio"
  /\ \E t \in TextosMd :
       /\ entrada_md' = t
       /\ tabelas' = extrair_tabelas_do_md(t)
  /\ etapa' = "tabelas"
  /\ UNCHANGED <<texto, tamanho_chunk, sobreposicao, fase, chunks, dados_rag,
                 chamadas, consulta, top_k, similaridades, retorno, anterior,
                 sessao, secoes_importantes>>

\* secoes_importantes = extrair_secoes_importantes(entrada_md)
ExtrairSecoes ==
  /\ etapa = "tabelas"
  /\ secoes_importantes' = extrair_secoes_importantes(entrada_md)
  /\ etapa' = "secoes"
  /\ UNCHANGED <<texto, tamanho_chunk, sobreposicao, fase, chunks, dados_rag,
                 chamadas, consulta, top_k, similaridades, retorno, anterior,
                 sessao, entrada_md, tabelas>>

NextExtrair == ExtrairTabelas \/ ExtrairSecoes

SpecExtrair == Init /\ [][NextExtrair]_vars

\* the index of record d is over d's own chunks: the same list, one matrix
\* row per chunk, and the chunk at row idx has indice idx
Vinculado(d) ==
  (~d.nulo /\ ~d.indice_similaridade.nulo) =>
    /\ d.indice_similaridade.chunks = d.chunks
    /\ Len(d.indice_similaridade.tfidf_matrix) = Len(d.chunks)
    /\ \A k \in 1..Len(d.chunks) : d.chunks[k].indice = k - 1

Completo(d) ==
  /\ DOMAIN d = DOMAIN DadosRagNone
  /\ ~d.nulo
  /\ d = processar_md_com_rag(d.texto_completo)

\* C15: the session's dados_rag is at every moment of a reload either unset
\* or the whole record of one load, the previous or the new one, and so is
\* the record an analysis has read from it.
C15_TrocaAtomica ==
  /\ dados_rag.nulo \/ Completo(dados_rag)
  /\ lido.nulo \/ Completo(lido)
  /\ pc \in {"L3446", "L3447"} => Completo(novo)
  /\ pc \in {"L3448", "L3449"} => dados_rag = novo

\* C15 happens: an analysis read the session while a reload over a loaded
\* session was between its writes, and holds the previous record
C15_LeituraDuranteRecarga ==
  /\ pc = "L3447"
  /\ leitor = "L1274"
  /\ documentos_carregados
  /\ lido = dados_rag
  /\ lido # novo

\* the session is loaded
Carregada == documentos_carregados /\ ~dados_rag.nulo

\* C16: once documentos_carregados is True and dados_rag is set, every step
\* (deactivate, activate, failed load, query) leaves both so, and dados_rag
\* changes only by the handler's write of a whole new record.
C16_CarregadaParaSempre ==
  [][Carregada =>
       /\ Carregada'
       /\ dados_rag' # dados_rag =>
            (pc = "L3447" /\ dados_rag' = novo /\ Completo(novo))]_vars

\* C16 happens: a loaded session, deactivated, whose new activation failed
C16_FalhaDepoisDeCarregada ==
  /\ Carregada
  /\ ~ia_ativa
  /\ pc = "ocioso"
  /\ mensagem = "Erro ao extrair texto"

\* C17 as stated: no call of dividir_em_chunks (sobreposicao equal to
\* tamanho_chunk included), criar_indice_similaridade or
\* buscar_informacoes_relevantes raises: each returns a value.
C17_NenhumaExcecaoPropaga ==
  /\ fase # "erro"
  /\ ~dividir_em_chunks(texto, tamanho_chunk, sobreposicao).raised
  /\ ~criar_indice_similaridade(chunks).raised
  /\ Retornou => ~retorno.raised

\* the pattern of the n-th topic matches t somewhere: one of its
\* alternatives is in t, letter case aside; of an alternative with ".*"
\* both literals are, the second after the first and on the same line
TopicoCasa(n, t) ==
  \E k \in 1..Len(padroes_secoes[n].padrao), p \in 0..(Len(t) - 1) :
    LET alt == padroes_secoes[n].padrao[k]
        a == p + Len(alt[1])
    IN /\ OcorreSemCaixa(t, p, alt[1])
       /\ Len(alt) = 2 =>
            \E q \in a..Len(t) :
              /\ OcorreSemCaixa(t, q, alt[2])
              /\ \A i \in (a + 1)..q : t[i] # "\n"

\* C18: the mapping extrair_secoes_importantes returns has a topic's name
\* as a key if and only if the topic's pattern matches the text; no key maps
\* to an empty list, and a text no pattern matches gives the empty mapping.
C18_ChaveSseTopicoCasa ==
  etapa = "secoes" =>
    /\ \A n \in 1..Len(padroes_secoes) :
         (padroes_secoes[n].nome \in DOMAIN secoes_importantes)
           <=> TopicoCasa(n, entrada_md)
    /\ \A nome \in DOMAIN secoes_importantes :
         /\ \E n \in 1..Len(padroes_secoes) : padroes_secoes[n].nome = nome
         /\ Len(secoes_importantes[nome]) >= 1
    /\ (\A n \in 1..Len(padroes_secoes) : ~TopicoCasa(n, entrada_md))
         => DOMAIN secoes_importantes = {}

\* C18 happens: a text where one topic matched twice, another once and the
\* remaining ones not at all
C18_AlgunsTopicosCasam ==
  /\ etapa = "secoes"
  /\ \E nome \in DOMAIN secoes_importantes :
       Len(secoes_importantes[nome]) >= 2
  /\ \E nome \in DOMAIN secoes_importantes :
       Len(secoes_importantes[nome]) = 1
  /\ \E n \in 1..Len(padroes_secoes) :
       padroes_secoes[n].nome \notin DOMAIN secoes_importantes

\* of the sections extrair_tabelas_do_md looks at, those with a digit: the
\* ones a candidate is made for, in order
SecoesComNumero(t) ==
  SelectSeq(Ultimas(Split_em(t, Separador)),
            LAMBDA secao : \E i \in 1..Len(secao) : EhDigito(secao[i]))

\* a numeric token: digits, with "." and whitespace only between digits
EhNumerico(token) ==
  /\ Len(token) >= 1
  /\ EhDigito(token[1])
  /\ EhDigito(token[Len(token)])
  /\ \A i \in 1..Len(token) :
       EhDigito(token[i]) \/ EhEspaco(token[i]) \/ token[i] = "."

\* the tokens from the k-th on are in secao one after the other, from
\* offset pos on
RECURSIVE EmOrdem(_, _, _, _)
EmOrdem(tokens, secao, k, pos) ==
  IF k > Len(tokens) THEN TRUE
  ELSE LET P == {p \in pos..(Len(secao) - 1) : OcorreEm(secao, p, tokens[k])}
       IN /\ P # {}
          /\ EmOrdem(tokens, secao, k + 1, Menor_de(P) + Len(tokens[k]))

\* candidate i has between 1 and 10 numeric tokens, in the order they have
\* in the section it was made for
DadosEmOrdem(i) ==
  LET dados == tabelas[i].dados_numericos
  IN /\ Len(dados) \in 1..LimiteDeDados
     /\ \A k \in 1..Len(dados) : EhNumerico(dados[k])
     /\ EmOrdem(dados, SecoesComNumero(entrada_md)[i], 1, 0)

\* C19 as stated: every candidate of extrair_tabelas_do_md has at most 10
\* numeric tokens in their order in the section, and a 'secao' of at most
\* 200 characters that is a substring of the text, whatever the section's
\* length.
C19_TrechoDeAte200 ==
  etapa # "inicio" =>
    /\ Len(tabelas) = Len(SecoesComNumero(entrada_md))
    /\ \A i \in 1..Len(tabelas) :
         /\ DadosEmOrdem(i)
         /\ Len(tabelas[i].secao) <= LimiteDoTrecho
         /\ Contem(entrada_md, tabelas[i].secao)

\* C19 amended: every candidate has at most 10 numeric tokens in their
\* order in the section; its 'secao' is the section itself when that has at
\* most 200 characters, and otherwise the section's first 200 characters
\* followed by "...", 203 characters of which the first 200 are a substring
\* of the text.
C19_TrechoCortadoComReticencias ==
  etapa # "inicio" =>
    /\ Len(tabelas) = Len(SecoesComNumero(entrada_md))
    /\ \A i \in 1..Len(tabelas) :
         LET secao == SecoesComNumero(entrada_md)[i]
         IN /\ DadosEmOrdem(i)
            /\ Contem(entrada_md, secao)
            /\ IF Len(secao) <= LimiteDoTrecho
               THEN tabelas[i].secao = secao
               ELSE /\ Len(tabelas[i].secao) = LimiteDoTrecho + 3
                    /\ tabelas[i].secao =
                         SubSeq(secao, 1, LimiteDoTrecho) \o Reticencias

\* C19 happens: a candidate made for a section of more than 200 characters
C19_SecaoComMaisDe200 ==
  /\ etapa # "inicio"
  /\ \E i \in 1..Len(tabelas) :
       /\ i <= Len(SecoesComNumero(entrada_md))
       /\ Len(SecoesComNumero(entrada_md)[i]) > LimiteDoTrecho
       /\ Len(tabelas[i].dados_numericos) >= 1

\* an entry of the keyword pass: the one kind that carries no 'fonte'
DaPalavraChave(e) ==
  "fonte" \notin DOMAIN e /\ e.similaridade = SimilaridadePalavraChave

\* the query is one of the ability/competency category
DeHabilidade == ~consulta.nulo /\ ConsultaDeHabilidade(consulta.valor)

\* C20 as stated: for a query containing 'habilidade' or 'competência' no
\* returned entry has the keyword pass's score 0.3.
C20_SemPalavraChaveParaHabilidade ==
  (Retornou /\ DeHabilidade) =>
    \A i \in 1..Len(Resultados) :
      /\ ~DaPalavraChave(Resultados[i])
      /\ Resultados[i].similaridade # SimilaridadePalavraChave

\* C20 amended: an entry of the keyword pass (score 0.3, no 'fonte') is
\* returned only when the similarity pass kept nothing and the ability
\* pass, if the query is of that category, found no chunk: then every entry
\* returned is of the keyword pass and its chunk contains a word of the
\* lowercased query.  The category of the query does not shut the pass off.
C20_PalavraChaveSoSeNadaAntes ==
  (Retornou /\ \E i \in 1..Len(Resultados) : DaPalavraChave(Resultados[i])) =>
    /\ \A i \in 1..Len(Resultados) :
         /\ DaPalavraChave(Resultados[i])
         /\ \E p \in 1..Len(Split(Lower(consulta.valor))) :
              Em(<<Split(Lower(consulta.valor))[p]>>,
                 Lower(Resultados[i].texto))
    /\ top_k = 0 \/ \A c \in 1..Len(similaridades) :
                      ~Maior(similaridades[c], Limiar)
    /\ DeHabilidade =>
         \A c \in 1..Len(dados_rag.chunks), p \in 1..Len(palavras_habilidade) :
           ~Em(palavras_habilidade[p], Lower(dados_rag.chunks[c].texto))

\* C20 happens: an ability query that came back with entries of the
\* keyword pass
C20_PalavraChaveParaHabilidade ==
  /\ Retornou
  /\ DeHabilidade
  /\ Len(Resultados) >= 1
  /\ DaPalavraChave(Resultados[1])

\* the text names the BNCC in one of the spellings both passes look for
MarcaBNCC(t) == Em(Str_BNCC, t) \/ Em(Str_BaseNacional, t)

\* the text names the DCRC in one of the spellings both passes look for
MarcaDCRC(t) == Em(Str_DCRC, t) \/ Em(Str_DocumentoCurricular, t)

\* the source by parity of a chunk's indice
FontePorParidade(chunk) == IF chunk.indice % 2 = 0 THEN "BNCC" ELSE "DCRC"

MatchesDoPadrao(ms, padrao, t) ==
  /\ \A k \in 1..Len(ms) :
       /\ ms[k].start \in 0..(Len(t) - 1)
       /\ ms[k].end = FimDoPadrao(t, ms[k].start, padrao)
       /\ ms[k].end > ms[k].start
       /\ k > 1 => ms[k - 1].end <= ms[k].start
  /\ \A p \in 0..(Len(t) - 1) :
       FimDoPadrao(t, p, padrao) # -1 =>
         \E k \in 1..Len(ms) : ms[k].start <= p /\ p < ms[k].end

\* C22: for each topic the list under its name has one context per match of
\* its pattern, in match order, repeated contexts included, and the context
\* of a match is the text from max(0, start - 500) to min(len, end + 500).
C22_UmContextoPorMatch ==
  etapa = "secoes" =>
    \A n \in 1..Len(padroes_secoes) :
      LET nome == padroes_secoes[n].nome
          ms == Finditer(padroes_secoes[n].padrao, entrada_md, 0)
          lista == IF nome \in DOMAIN secoes_importantes
                   THEN secoes_importantes[nome] ELSE <<>>
      IN /\ MatchesDoPadrao(ms, padroes_secoes[n].padrao, entrada_md)
         /\ Len(lista) = Len(ms)
         /\ \A k \in 1..Len(ms) :
              LET de == IF ms[k].start > Contexto
                        THEN ms[k].start - Contexto ELSE 0
                  ate == IF ms[k].end + Contexto < Len(entrada_md)
                         THEN ms[k].end + Contexto ELSE Len(entrada_md)
              IN /\ Len(lista[k]) = ate - de
                 /\ \A c \in 1..(ate - de) : lista[k][c] = entrada_md[de + c]

\* C22 happens: a topic matched twice, far from both ends of the text, and
\* has two different contexts, each with 500 characters or near it on both
\* sides of the match and shorter than the text
C22_DoisContextosCortados ==
  /\ etapa = "secoes"
  /\ \E nome \in DOMAIN secoes_importantes :
       /\ Len(secoes_importantes[nome]) = 2
       /\ secoes_importantes[nome][1] # secoes_importantes[nome][2]
       /\ Len(secoes_importantes[nome][1]) > 2 * Contexto
       /\ Len(secoes_importantes[nome][2]) > 2 * Contexto
       /\ Len(secoes_importantes[nome][1]) < Len(entrada_md)

\* the sections of the text, by position
SecoesDoTexto == Split_em(entrada_md, Separador)

\* the positions of the sections that are inspected and hold a digit: of
\* the last five sections, or of all when there are no more than five
Inspecionadas ==
  LET n == Len(SecoesDoTexto)
      primeira == IF n > UltimasSecoes THEN n - UltimasSecoes + 1 ELSE 1
  IN {k \in primeira..n :
        \E c \in 1..Len(SecoesDoTexto[k]) : EhDigito(SecoesDoTexto[k][c])}

\* the position of the section candidate i stands for: the i-th of them
SecaoDoCandidatoNumero(i) ==
  CHOOSE k \in Inspecionadas :
    Cardinality({j \in Inspecionadas : j < k}) = i - 1

\* C23: extrair_tabelas_do_md returns one candidate for each of the last
\* five sections (of all, when there are five or fewer) that holds a number,
\* in section order, so at most five, and none for any other section.
C23_SoAsUltimasCinco ==
  etapa # "inicio" =>
    /\ Len(tabelas) = Cardinality(Inspecionadas)
    /\ Len(tabelas) <= UltimasSecoes
    /\ \A i \in 1..Len(tabelas) :
         LET secao == SecoesDoTexto[SecaoDoCandidatoNumero(i)]
             n == Min(Len(secao), LimiteDoTrecho)
         IN /\ SubSeq(tabelas[i].secao, 1, n) = SubSeq(secao, 1, n)
            /\ tabelas[i].dados_numericos = Trecho(Findall(secao, 0), 0,
                                                   LimiteDeDados)

\* C23 happens: a text of more than five sections whose first section
\* holds a number and gave no candidate, while the last five gave one each
C23_NumeroEmSecaoAnterior ==
  /\ etapa # "inicio"
  /\ Len(SecoesDoTexto) > UltimasSecoes
  /\ \E c \in 1..Len(SecoesDoTexto[1]) : EhDigito(SecoesDoTexto[1][c])
  /\ Len(tabelas) = UltimasSecoes
  /\ tabelas[1].secao = SecoesDoTexto[Len(SecoesDoTexto) - UltimasSecoes + 1]

\* the tail the query s is to get: the ability tail if it holds 'habilidade'
\* or 'competência' in any letter case; if not, the proficiency tail if it
\* holds 'proficiência' or 'desempenho'; if not, the participation tail if
\* it holds 'participação'; if not, the general tail
CaudaDevida(s) ==
  LET tem(k) == Em(k, Lower(s))
  IN IF tem(Str_habilidade) \/ tem(Str_competencia) THEN CaudaHabilidade
     ELSE IF tem(Str_proficiencia) \/ tem(Str_desempenho)
     THEN CaudaProficiencia
     ELSE IF tem(Str_participacao) THEN CaudaParticipacao
     ELSE CaudaGeral

\* entry i was appended by the ability pass
DoPassoHabilidade(i) ==
  /\ "fonte" \in DOMAIN Resultados[i]
  /\ Resultados[i].similaridade = SimilaridadeHabilidade
  /\ Resultados[i].similaridade # CossenoDaEntrada(i)

\* C24: the query is vectorized as itself, unchanged, followed by a space
\* and one tail, chosen in any letter case in the order ability, then
\* proficiency, then participation, then general: the cosines of the call
\* are those of that text.  The ability pass adds entries exactly for the
\* queries that got the ability tail.
C24_UmaCaudaPorPrecedencia ==
  (Retornou /\ TemIndice /\ ~consulta.nulo) =>
    LET s == consulta.valor
        indice == dados_rag.indice_similaridade
        expandida == s \o <<ESPACO>> \o CaudaDevida(s)
    IN /\ ExpandirConsulta(s) = expandida
       /\ similaridades =
            cosine_similarity(Transform(indice.vocabulario, indice.idf,
                                        Analisar(expandida)),
                              indice.tfidf_matrix)
       /\ (\E i \in 1..Len(Resultados) : DoPassoHabilidade(i))
            => CaudaDevida(s) = CaudaHabilidade
       /\ (CaudaDevida(s) = CaudaHabilidade /\ top_k = 0) =>
            (\A c \in 1..Len(dados_rag.chunks) :
               (\E p \in 1..Len(palavras_habilidade) :
                  Em(palavras_habilidade[p], Lower(dados_rag.chunks[c].texto)))
               => \E i \in 1..Len(Resultados) : DoPassoHabilidade(i))

\* C24 happens: a query with the triggers of two categories got the tail of
\* the one that comes first, seen in the cosine of a chunk whose word is in
\* that tail only
C24_DoisGatilhos ==
  /\ Retornou
  /\ TemIndice
  /\ ~consulta.nulo
  /\ Em(Str_desempenho, Lower(consulta.valor))
  /\ Em(Str_habilidade, Lower(consulta.valor))
  /\ \E c \in 1..Len(similaridades) :
       /\ dados_rag.chunks[c].texto = Join(<<<<"c","a","p","a","c","i","d","a","d","e">>>>)
       /\ Maior(similaridades[c], Fracao(0, 1))

\* the text holds, in any letter case, a keyword of the ability pass
TemPalavraDeHabilidade(t) ==
  \E p \in 1..Len(palavras_habilidade) : Em(palavras_habilidade[p], Lower(t))

\* C25: no two entries of the returned list are for the same chunk, and
\* every entry the ability pass appended is for a chunk whose text holds a
\* keyword of that pass.
C25_NenhumChunkDuasVezes ==
  Retornou =>
    /\ \A i, j \in 1..Len(Resultados) :
         i # j => Resultados[i].chunk.indice # Resultados[j].chunk.indice
    /\ \A i \in 1..Len(Resultados) :
         DoPassoHabilidade(i) => TemPalavraDeHabilidade(Resultados[i].texto)

\* C25 happens: the similarity pass had returned a chunk with a keyword, and
\* the ability pass went past it and appended another one
C25_ReforcoDepoisDaPrimaria ==
  /\ Retornou
  /\ \E i, j \in 1..Len(Resultados) :
       /\ i < j
       /\ DaPassagemPrimaria(i)
       /\ TemPalavraDeHabilidade(Resultados[i].texto)
       /\ DoPassoHabilidade(j)
       /\ Resultados[i].chunk.indice < Resultados[j].chunk.indice

\* C26: a call of buscar_informacoes_relevantes, whether it returns
\* entries, an empty list or the empty list of a caught error, leaves
\* dados_rag as it was, with its vocabulary, its matrix and every chunk
\* record, and leaves the chunk list, the text and the session as they were.
C26_BuscaSoLe ==
  [][(chamadas = 0 /\ chamadas' = 1) =>
       /\ dados_rag' = dados_rag
       /\ chunks' = chunks
       /\ texto' = texto
       /\ UNCHANGED sessao]_vars

\* C26 happens: a call returned a chunk whose text has capital letters, and
\* the index still holds that chunk as it was built
C26_ChunkDevolvidoIntacto ==
  /\ Retornou
  /\ TemIndice
  /\ dados_rag.chunks = chunks
  /\ dados_rag.indice_similaridade.chunks = chunks
  /\ \E i \in 1..Len(Resultados) :
       /\ Lower(Resultados[i].texto) # Resultados[i].texto
       /\ chunks[Resultados[i].chunk.indice + 1] = Resultados[i].chunk

\* the positions of the chunks whose lowercased text holds a
\* whitespace-separated token of the lowercased query
ComPalavraDaConsulta ==
  LET palavras == Split(Lower(consulta.valor))
  IN {c \in 1..Len(dados_rag.chunks) :
        \E p \in 1..Len(palavras) :
          Em(<<palavras[p]>>, Lower(dados_rag.chunks[c].texto))}

\* C27 as stated: when the keyword pass made the list, its entries are the
\* first chunks, in sequence order, that hold a token of the query, each
\* with score 0.3, and they are at most top_k, for every top_k >= 0.
C27_PalavraChaveAteTopK ==
  (Retornou /\ Len(Resultados) >= 1 /\ DaPalavraChave(Resultados[1])) =>
    /\ Len(Resultados) <= top_k
    /\ Len(Resultados) <= Cardinality(ComPalavraDaConsulta)
    /\ \A i \in 1..Len(Resultados) :
         /\ DaPalavraChave(Resultados[i])
         /\ Resultados[i].chunk.indice + 1 \in ComPalavraDaConsulta
         /\ Cardinality({c \in ComPalavraDaConsulta :
                           c < Resultados[i].chunk.indice + 1}) = i - 1

\* C28 as stated: for every chunk of a loaded index the source the
\* similarity pass assigns to it is the source the ability pass assigns to
\* it, and an entry's source is that one whichever pass returned it.
C28_MesmaFonteNosDoisPassos ==
  TemIndice =>
    /\ \A c \in 1..Len(dados_rag.chunks) :
         FonteDocumento(dados_rag.chunks[c].texto, c - 1)
           = FonteHabilidade(dados_rag.chunks[c].texto, c - 1)
    /\ Retornou =>
         \A i \in 1..Len(Resultados) :
           "fonte" \in DOMAIN Resultados[i] =>
             Resultados[i].fonte =
               FonteDocumento(Resultados[i].texto, Resultados[i].chunk.indice)

\* C29: in every reachable session state, 'ia_ativa' true implies that
\* 'documentos_carregados' is true and that the published 'dados_rag' is
\* a record, not None (lines 3446-3449 write 'ia_ativa' last, line 3423
\* writes 'ia_ativa' only)
C29_AtivaImplicaCarregada ==
  ia_ativa => (documentos_carregados /\ ~dados_rag.nulo)

\* C29 witness: an activation has just completed (the success message of
\* line 3450 is on screen) and the session is active with its record
C29_AtivadaComSucesso ==
  /\ ia_ativa
  /\ pc = "ocioso"
  /\ documentos_carregados
  /\ ~dados_rag.nulo
  /\ ~documentos_referencia.nulo

\* C30: an activation that fails (the handler ends on one of its error
\* messages without reaching line 3446) leaves 'documentos_referencia',
\* 'dados_rag', 'documentos_carregados' and 'ia_ativa' as they were
C30_FalhaNaoAlteraSessao ==
  [][(pc = "ocioso" /\ pc' = "ocioso" /\ ~ia_ativa
        /\ mensagem' \in {"Erro ao extrair texto", "Erro ao processar os documentos"})
     => UNCHANGED <<documentos_referencia, dados_rag, documentos_carregados, ia_ativa>>]_vars

\* C30 witness: a failed activation in a session that was loaded and
\* analysed before: the earlier record and reference text are still there
C30_FalhaComRegistroAnterior ==
  /\ pc = "ocioso"
  /\ mensagem = "Erro ao extrair texto"
  /\ ~ia_ativa
  /\ ~dados_rag.nulo
  /\ ~documentos_referencia.nulo
  /\ ~lido.nulo
  /\ leitor = "fora"

====
